---- MODULE Spec2Model ----
(***************************************************************************)
(* Model of the xianyu_spider pipeline:                                    *)
(*   scrape_xianyu  - one browser session with its response observer       *)
(*                    (cli_spider.py; spider.py differs in the page loop)  *)
(*   save_to_db     - the ingestion sink over XianyuProduct.get_or_create  *)
(*   parse_price_to_cents, format_cents_to_display (utils/price_parser.py) *)
(*   get_link_unique_key, get_md5 - the link canonicalizer and dedup key   *)
(*   on_response    - the extraction of one item of a response             *)
(*   cli_search     - the command that validates, scrapes and persists     *)
(* Spec is the scraping session, SpecIngest the ingestion sink, SpecPrice  *)
(* the price functions, SpecLink the link functions, SpecItem the          *)
(* extraction of one item, SpecCli the search command.                     *)
(***************************************************************************)
EXTENDS Integers, Sequences, FiniteSets, TLC

VARIABLES
    \* ---- scrape_xianyu ----
    variant,        \* "cli" (cli_spider.py) or "api" (spider.py)
    max_pages,      \* argument max_pages
    pc,             \* position of the session coroutine
    playwright,     \* "started" | "stopped": the async_playwright() context
    browser,        \* "none" | "open" | "closed"
    page_created,   \* context.new_page() has returned
    listeners,      \* number of on_response registrations on the page
    current_page,   \* loop variable current_page (0 before the loop)
    shown,          \* result page the browser displays (0 before the search)
    clicks,         \* next-page clicks performed
    sleeps,         \* inter-page waits performed
    emitted,        \* responses the page has emitted so far
    pending,        \* on_response tasks suspended at `await response.json()`
    data_list,      \* accumulated records
    exc,            \* an exception is propagating out of the session
    exit_path,      \* how the page loop was left
    result,         \* value returned to the caller
    \* ---- save_to_db ----
    store,          \* rows of table xianyu_products
    sv_pc,          \* "idle" | "loop" | "returned"
    sv_list,        \* argument data_list of the running / last call
    sv_i,           \* index of the record being processed (enumerate, 1-based)
    new_records,    \* local new_records
    new_ids,        \* local new_ids
    sv_failed,      \* indices of the call whose processing raised
    sv_fresh,       \* the store held none of the list's keys when the call began
    sv_size0,       \* number of rows in the store when the call began
    prev,           \* summary of the preceding call when it had the same list
    \* ---- parse_price_to_cents / format_cents_to_display ----
    pr_pc,          \* "off" | "input" | "parsed" | "formatted" | "reparsed"
    price_str,      \* argument of parse_price_to_cents
    price_cents,    \* its result
    display,        \* format_cents_to_display(price_cents)
    reparsed,       \* parse_price_to_cents(display)
    \* ---- get_link_unique_key / get_md5 ----
    lk_pc,          \* "off" | "input" | "keyed" | "rekeyed" | "hashed"
    link1, link2,   \* two links
    key1, key2,     \* their unique keys
    rekey1, rekey2, \* the unique keys of the keys
    hash1, hash2,   \* the digests of the keys
    \* ---- on_response, one item ----
    it_pc,          \* "off" | "input" | "appended" | "raised"
    raw_item,       \* one element of resultList
    record,         \* the record appended for it
    \* ---- cli_search ----
    cli_pc,         \* position of cli_search
    args,           \* parsed command line
    pages,          \* local pages after validate_pages
    db_initialized, \* db_manager.is_initialized
    db_inits,       \* calls of init_database() made
    scrape_calls,   \* max_pages of each scrape_xianyu call made
    scrape_outcome, \* "none" | "records" | "empty" | "raises": how the call ended
    persisted,      \* save_to_db() has run
    exit_code,      \* value cli_search returns
    \* ---- DatabaseManager ----
    db_pc,          \* position inside the running DatabaseManager method
    is_initialized, \* DatabaseManager.is_initialized
    conn,           \* "closed" | "open": the Tortoise connection
    db_hist,        \* the calls that returned: [op, ret]
    tortoise_inits, \* calls of Tortoise.init() that succeeded
    conn_closes,    \* calls of Tortoise.close_connections() that succeeded
    \* ---- XianyuProduct.get_or_create, one record on an empty table ----
    cr_pc,          \* "off" | "input" | "created"
    cr_item,        \* the record of data_list
    cr_row,         \* the row created for it
    \* ---- the pagination loop of test.py ----
    lg_pc,          \* position in the loop
    lg_max_pages,   \* max_pages
    lg_page,        \* current_page
    lg_iters,       \* iterations begun: the result pages processed
    lg_exit,        \* how the loop ended
    lg_has_data,    \* data_list is not empty
    lg_reported,    \* the page count in the file name
    \* ---- two save_to_db runs of the API on one table ----
    cc_lists,       \* the data_list of each run
    cc_pc,          \* each run's position inside get_or_create
    cc_i,           \* each run's index into its list
    cc_new,         \* each run's new_records
    cc_ids,         \* each run's new_ids
    cc_store        \* the rows of xianyu_products

sessionVars == <<variant, max_pages, pc, playwright, browser, page_created,
                 listeners, current_page, shown, clicks, sleeps, emitted,
                 pending, data_list, exc, exit_path, result>>
ingestVars == <<store, sv_pc, sv_list, sv_i, new_records, new_ids, sv_failed,
                sv_fresh, sv_size0, prev>>
priceVars == <<pr_pc, price_str, price_cents, display, reparsed>>
linkVars == <<lk_pc, link1, link2, key1, key2, rekey1, rekey2, hash1, hash2>>
itemVars == <<it_pc, raw_item, record>>
cliVars == <<cli_pc, args, pages, db_initialized, db_inits, scrape_calls, scrape_outcome,
             persisted, exit_code>>
valueVars == <<priceVars, linkVars, itemVars>>
dbVars == <<db_pc, is_initialized, conn, db_hist, tortoise_inits, conn_closes>>
createVars == <<cr_pc, cr_item, cr_row>>
legacyVars == <<lg_pc, lg_max_pages, lg_page, lg_iters, lg_exit, lg_has_data, lg_reported>>
concVars == <<cc_lists, cc_pc, cc_i, cc_new, cc_ids, cc_store>>
extraVars == <<dbVars, createVars, legacyVars, concVars>>
coreVars == <<sessionVars, ingestVars, valueVars, cliVars>>
notDbVars == <<createVars, legacyVars, concVars>>
notCreateVars == <<dbVars, legacyVars, concVars>>
notLegacyVars == <<dbVars, createVars, concVars>>
notConcVars == <<dbVars, createVars, legacyVars>>
vars == <<sessionVars, ingestVars, valueVars, cliVars, extraVars>>

\* the parts of the pipeline a specification does not exercise stay parked
PriceOff ==
    /\ pr_pc = "off" /\ price_str = [tag |-> "none", s |-> <<>>] /\ price_cents = 0
    /\ display = <<>> /\ reparsed = 0
LinkOff ==
    /\ lk_pc = "off" /\ link1 = <<>> /\ link2 = <<>> /\ key1 = <<>> /\ key2 = <<>>
    /\ rekey1 = <<>> /\ rekey2 = <<>> /\ hash1 = 0 /\ hash2 = 0
ItemOff == it_pc = "off" /\ raw_item = <<>> /\ record = <<>>
CliOff ==
    /\ cli_pc = "off" /\ args = <<>> /\ pages = 0 /\ db_initialized = FALSE /\ db_inits = 0
    /\ scrape_calls = <<>> /\ scrape_outcome = "none" /\ persisted = FALSE /\ exit_code = 0
ValuesOff == PriceOff /\ LinkOff /\ ItemOff
DbOff ==
    /\ db_pc = "off" /\ is_initialized = FALSE /\ conn = "closed" /\ db_hist = <<>>
    /\ tortoise_inits = 0 /\ conn_closes = 0
CreateOff == cr_pc = "off" /\ cr_item = <<>> /\ cr_row = <<>>
LegacyOff ==
    /\ lg_pc = "off" /\ lg_max_pages = 0 /\ lg_page = 0 /\ lg_iters = 0
    /\ lg_exit = "none" /\ lg_has_data = FALSE /\ lg_reported = 0
ConcOff ==
    /\ cc_lists = <<>> /\ cc_pc = <<>> /\ cc_i = <<>> /\ cc_new = <<>> /\ cc_ids = <<>>
    /\ cc_store = {}
ExtraOff == DbOff /\ CreateOff /\ LegacyOff /\ ConcOff

----------------------------------------------------------------------------
\* Bounds of the model
MaxPages == 2        \* max_pages ranges over 1..MaxPages
MaxItems == 2        \* items in one response's resultList
MaxResponses == 2    \* responses emitted in one session
MaxRecords == 2      \* records in one save_to_db argument

Variants == {"cli", "api"}
ItemKinds == {"ok", "bad"}   \* "bad": processing the item raises

RECURSIVE SeqsUpTo(_, _)
SeqsUpTo(S, n) ==
    IF n = 0 THEN {<<>>}
    ELSE LET T == SeqsUpTo(S, n - 1)
         IN  T \cup {Append(t, x) : t \in {u \in T : Len(u) = n - 1}, x \in S}

ItemLists == SeqsUpTo(ItemKinds, MaxItems)

NoResult == <<"none">>

----------------------------------------------------------------------------
\* on_response: the records one response contributes.  The for loop over the
\* items sits inside the handler's single try block, so the first item whose
\* processing raises ends the loop.
Record(t, k) == [rid |-> t.rid, page |-> t.page, idx |-> k]

RECURSIVE on_response_loop(_, _, _, _)
on_response_loop(t, items, k, acc) ==
    IF k > Len(items) THEN acc
    ELSE IF items[k] = "bad" THEN acc
    ELSE on_response_loop(t, items, k + 1, Append(acc, Record(t, k)))

Extracted(t, items) == on_response_loop(t, items, 1, <<>>)

----------------------------------------------------------------------------
\* scrape_xianyu
SessionOff ==
    /\ variant = "cli" /\ max_pages = 1 /\ pc = "off"
    /\ playwright = "stopped" /\ browser = "none" /\ page_created = FALSE
    /\ listeners = 0 /\ current_page = 0 /\ shown = 0 /\ clicks = 0
    /\ sleeps = 0 /\ emitted = 0 /\ pending = {}
    /\ data_list = <<>> /\ exc = FALSE /\ exit_path = "none"
    /\ result = NoResult

InitSession ==
    /\ variant \in Variants
    /\ max_pages \in 1..MaxPages
    /\ pc = "launch"
    /\ playwright = "started"
    /\ browser = "none"
    /\ page_created = FALSE
    /\ listeners = 0
    /\ current_page = 0
    /\ shown = 0
    /\ clicks = 0
    /\ sleeps = 0
    /\ emitted = 0
    /\ pending = {}
   
    /\ data_list = <<>>
    /\ exc = FALSE
    /\ exit_path = "none"
    /\ result = NoResult

envVars == <<emitted, pending, data_list>>
cfgVars == <<variant, max_pages, playwright, result>>

\* an awaited step outside the try statement: an exception skips the finally
Launch ==
    /\ pc = "launch"
    /\ \E ok \in BOOLEAN :
          IF ok THEN browser' = "open" /\ pc' = "new_context" /\ UNCHANGED <<exc, exit_path>>
          ELSE pc' = "with_exit" /\ exc' = TRUE /\ exit_path' = "exception" /\ UNCHANGED browser
    /\ UNCHANGED <<cfgVars, envVars, page_created, listeners, current_page, shown, clicks, sleeps>>
    /\ UNCHANGED <<ingestVars, valueVars, cliVars, extraVars>>

NewContext ==
    /\ pc = "new_context"
    /\ \E ok \in BOOLEAN :
          IF ok THEN pc' = "new_page" /\ UNCHANGED <<exc, exit_path>>
          ELSE pc' = "with_exit" /\ exc' = TRUE /\ exit_path' = "exception"
    /\ UNCHANGED <<cfgVars, envVars, browser, page_created, listeners, current_page, shown, clicks, sleeps>>
    /\ UNCHANGED <<ingestVars, valueVars, cliVars, extraVars>>

NewPage ==
    /\ pc = "new_page"
    /\ \E ok \in BOOLEAN :
          IF ok THEN pc' = "goto" /\ page_created' = TRUE /\ UNCHANGED <<exc, exit_path>>
          ELSE pc' = "with_exit" /\ exc' = TRUE /\ exit_path' = "exception" /\ UNCHANGED page_created
    /\ UNCHANGED <<cfgVars, envVars, browser, listeners, current_page, shown, clicks, sleeps>>
    /\ UNCHANGED <<ingestVars, valueVars, cliVars, extraVars>>

\* an awaited page interaction inside the try statement
TryStepSwallows(here, next) ==
    /\ pc = here
    /\ \E ok \in BOOLEAN :
          IF ok THEN pc' = next /\ UNCHANGED <<exc, exit_path>>
          ELSE pc' = next /\ exit_path' = "exception" /\ UNCHANGED exc

TryStep(here, next) ==
    /\ pc = here
    /\ \E ok \in BOOLEAN :
          IF ok THEN pc' = next /\ UNCHANGED <<exc, exit_path>>
          ELSE pc' = "finally" /\ exc' = TRUE /\ exit_path' = "exception"

Goto ==
    /\ TryStep("goto", "fill")
    /\ UNCHANGED <<cfgVars, envVars, browser, page_created, listeners, current_page, shown, clicks, sleeps>>
    /\ UNCHANGED <<ingestVars, valueVars, cliVars, extraVars>>

Fill ==
    /\ TryStep("fill", "click_submit")
    /\ UNCHANGED <<cfgVars, envVars, browser, page_created, listeners, current_page, shown, clicks, sleeps>>
    /\ UNCHANGED <<ingestVars, valueVars, cliVars, extraVars>>

ClickSubmit ==
    /\ pc = "click_submit"
    /\ \E ok \in BOOLEAN :
          IF ok THEN pc' = "wait_popup" /\ shown' = 1 /\ UNCHANGED <<exc, exit_path>>
          ELSE pc' = "finally" /\ exc' = TRUE /\ exit_path' = "exception" /\ UNCHANGED shown
    /\ UNCHANGED <<cfgVars, envVars, browser, page_created, listeners, current_page, clicks, sleeps>>
    /\ UNCHANGED <<ingestVars, valueVars, cliVars, extraVars>>

\* the interstitial: both awaits sit in an inner try; an exception of either
\* goes to its handler
WaitPopup ==
    /\ pc = "wait_popup"
    /\ \E ok \in BOOLEAN : pc' = IF ok THEN "click_popup" ELSE "popup_except"
    /\ UNCHANGED <<cfgVars, envVars, browser, page_created, listeners, current_page, shown, clicks, sleeps, exc, exit_path>>
    /\ UNCHANGED <<ingestVars, valueVars, cliVars, extraVars>>

ClickPopup ==
    /\ pc = "click_popup"
    /\ \E ok \in BOOLEAN : pc' = IF ok THEN "click_new" ELSE "popup_except"
    /\ UNCHANGED <<cfgVars, envVars, browser, page_created, listeners, current_page, shown, clicks, sleeps, exc, exit_path>>
    /\ UNCHANGED <<ingestVars, valueVars, cliVars, extraVars>>

\* the same handler with `raise` in place of `pass`
PopupExceptReraises ==
    /\ pc = "popup_except"
    /\ pc' = "finally" /\ exc' = TRUE /\ exit_path' = "exception"
    /\ UNCHANGED <<cfgVars, envVars, browser, page_created, listeners, current_page, shown, clicks, sleeps>>
    /\ UNCHANGED <<ingestVars, valueVars, cliVars, extraVars>>

\* except Exception: pass
PopupExcept ==
    /\ pc = "popup_except"
    /\ pc' = "click_new"
    /\ UNCHANGED <<cfgVars, envVars, browser, page_created, listeners, current_page, shown, clicks, sleeps, exc, exit_path>>
    /\ UNCHANGED <<ingestVars, valueVars, cliVars, extraVars>>

ClickNew ==
    /\ TryStep("click_new", "click_latest")
    /\ UNCHANGED <<cfgVars, envVars, browser, page_created, listeners, current_page, shown, clicks, sleeps>>
    /\ UNCHANGED <<ingestVars, valueVars, cliVars, extraVars>>

ClickLatest ==
    /\ TryStep("click_latest", "page_on")
    /\ UNCHANGED <<cfgVars, envVars, browser, page_created, listeners, current_page, shown, clicks, sleeps>>
    /\ UNCHANGED <<ingestVars, valueVars, cliVars, extraVars>>

\* page.on("response", on_response); current_page = 1
PageOn ==
    /\ pc = "page_on"
    /\ listeners' = listeners + 1
    /\ current_page' = 1
    /\ pc' = "while"
    /\ UNCHANGED <<cfgVars, envVars, browser, page_created, shown, clicks, sleeps, exc, exit_path>>
    /\ UNCHANGED <<ingestVars, valueVars, cliVars, extraVars>>

\* while current_page <= max_pages
While ==
    /\ pc = "while"
    /\ IF current_page <= max_pages
       THEN pc' = "sleep" /\ UNCHANGED exit_path
       ELSE pc' = "finally" /\ exit_path' = "complete"
    /\ UNCHANGED <<cfgVars, envVars, browser, page_created, listeners, current_page, shown, clicks, sleeps, exc>>
    /\ UNCHANGED <<ingestVars, valueVars, cliVars, extraVars>>

\* await asyncio.sleep(...); cli_spider.py looks for the next-page control
\* only when current_page < max_pages, spider.py on every page
Sleep ==
    /\ pc = "sleep"
    /\ sleeps' = sleeps + 1
    /\ pc' = IF variant = "cli" /\ ~(current_page < max_pages) THEN "incr" ELSE "query_next"
    /\ UNCHANGED <<cfgVars, envVars, browser, page_created, listeners, current_page, shown, clicks, exc, exit_path>>
    /\ UNCHANGED <<ingestVars, valueVars, cliVars, extraVars>>

\* next_btn = await page.query_selector(...); if not next_btn: break
QueryNextRaises ==
    /\ pc = "query_next"
    /\ \E outcome \in {"found", "none", "raise"} :
          CASE outcome = "found" -> pc' = "click_next" /\ UNCHANGED <<exc, exit_path>>
            [] outcome = "none"  -> pc' = "finally" /\ exit_path' = "break" /\ exc' = TRUE
            [] outcome = "raise" -> pc' = "finally" /\ exit_path' = "exception" /\ exc' = TRUE
    /\ UNCHANGED <<cfgVars, envVars, browser, page_created, listeners, current_page, shown, clicks, sleeps>>
    /\ UNCHANGED <<ingestVars, valueVars, cliVars, extraVars>>

QueryNext ==
    /\ pc = "query_next"
    /\ \E outcome \in {"found", "none", "raise"} :
          CASE outcome = "found" -> pc' = "click_next" /\ UNCHANGED <<exc, exit_path>>
            [] outcome = "none"  -> pc' = "finally" /\ exit_path' = "break" /\ UNCHANGED exc
            [] outcome = "raise" -> pc' = "finally" /\ exit_path' = "exception" /\ exc' = TRUE
    /\ UNCHANGED <<cfgVars, envVars, browser, page_created, listeners, current_page, shown, clicks, sleeps>>
    /\ UNCHANGED <<ingestVars, valueVars, cliVars, extraVars>>

\* await next_btn.click(): the controller's state alone decides the click
ClickNextDrained ==
    /\ pc = "click_next"
    /\ pending = {}
    /\ \E ok \in BOOLEAN :
          IF ok THEN /\ pc' = "incr" /\ clicks' = clicks + 1 /\ shown' = shown + 1
                     /\ UNCHANGED <<exc, exit_path>>
          ELSE /\ pc' = "finally" /\ exc' = TRUE /\ exit_path' = "exception"
               /\ UNCHANGED <<clicks, shown>>
    /\ UNCHANGED <<cfgVars, envVars, browser, page_created, listeners, current_page, sleeps>>
    /\ UNCHANGED <<ingestVars, valueVars, cliVars, extraVars>>

ClickNext ==
    /\ pc = "click_next"
    /\ \E ok \in BOOLEAN :
          IF ok THEN /\ pc' = "incr" /\ clicks' = clicks + 1 /\ shown' = shown + 1
                     /\ UNCHANGED <<exc, exit_path>>
          ELSE /\ pc' = "finally" /\ exc' = TRUE /\ exit_path' = "exception"
               /\ UNCHANGED <<clicks, shown>>
    /\ UNCHANGED <<cfgVars, envVars, browser, page_created, listeners, current_page, sleeps>>
    /\ UNCHANGED <<ingestVars, valueVars, cliVars, extraVars>>

\* current_page += 1
IncrRegistersAgain ==
    /\ pc = "incr"
    /\ current_page' = current_page + 1
    /\ listeners' = listeners + 1
    /\ pc' = "while"
    /\ UNCHANGED <<cfgVars, envVars, browser, page_created, shown, clicks, sleeps, exc, exit_path>>
    /\ UNCHANGED <<ingestVars, valueVars, cliVars, extraVars>>

Incr ==
    /\ pc = "incr"
    /\ current_page' = current_page + 1
    /\ pc' = "while"
    /\ UNCHANGED <<cfgVars, envVars, browser, page_created, listeners, shown, clicks, sleeps, exc, exit_path>>
    /\ UNCHANGED <<ingestVars, valueVars, cliVars, extraVars>>

\* finally: await browser.close()
FinallySkipsClose ==
    /\ pc = "finally"
    /\ pc' = "with_exit"
    /\ UNCHANGED browser
    /\ UNCHANGED <<cfgVars, envVars, page_created, listeners, current_page, shown, clicks, sleeps, exc, exit_path>>
    /\ UNCHANGED <<ingestVars, valueVars, cliVars, extraVars>>

Finally ==
    /\ pc = "finally"
    /\ browser' = "closed"
    /\ pc' = "with_exit"
    /\ UNCHANGED <<cfgVars, envVars, page_created, listeners, current_page, shown, clicks, sleeps, exc, exit_path>>
    /\ UNCHANGED <<ingestVars, valueVars, cliVars, extraVars>>

\* leaving `async with async_playwright() as p`: the driver is stopped, which
\* ends any browser it still runs; then return data_list, or the exception
\* reaches the caller
WithExit ==
    /\ pc = "with_exit"
    /\ playwright' = "stopped"
    /\ browser' = IF browser = "open" THEN "closed" ELSE browser
    /\ IF exc THEN pc' = "raised" /\ UNCHANGED result
       ELSE pc' = "returned" /\ result' = data_list
    /\ UNCHANGED <<variant, max_pages, envVars, page_created, listeners, current_page, shown, clicks, sleeps, exc, exit_path>>
    /\ UNCHANGED <<ingestVars, valueVars, cliVars, extraVars>>

----------------------------------------------------------------------------
\* Response URLs, as sequences of URL pieces; `pat in url` is containment of
\* a contiguous run
Contains(s, pat) ==
    \E i \in 0..(Len(s) - Len(pat)) : \A j \in 1..Len(pat) : s[i + j] = pat[j]

StartsWith(s, pat) ==
    Len(pat) <= Len(s) /\ \A j \in 1..Len(pat) : s[j] = pat[j]

SearchEndpoint == <<"h5api.m.goofish.com", "/h5/", "mtop.taobao.idlemtopsearch.pc.search">>

U_search == <<"https://", "h5api.m.goofish.com", "/h5/", "mtop.taobao.idlemtopsearch.pc.search", "/1.0/">>
U_home == <<"https://", "h5api.m.goofish.com", "/h5/", "mtop.taobao.idlehome.home.webpc.feed", "/1.0/">>
U_page == <<"https://", "www.goofish.com", "/search">>
ResponseUrls == {U_search, U_home, U_page}

\* if "h5api.m.goofish.com/h5/mtop.taobao.idlemtopsearch.pc.search" in response.url
on_response_filter_host(url) == Contains(url, <<"h5api.m.goofish.com">>)

on_response_filter(url) == Contains(url, SearchEndpoint)

\* The page emits a response.  Every registered on_response is called with
\* it; a call for a URL of the search endpoint becomes a task suspended at
\* `await response.json()`, a call for any other URL returns at once.
EmitResponse(match) ==
    /\ page_created /\ browser = "open"
    /\ pc # "goto"
    /\ match => shown >= 1
    /\ emitted < MaxResponses
    /\ emitted' = emitted + 1
    /\ pending' = IF match
                  THEN pending \cup {[rid |-> emitted + 1, reg |-> k, page |-> shown] :
                                         k \in 1..listeners}
                  ELSE pending
    /\ UNCHANGED <<variant, max_pages, pc, playwright, browser, page_created, listeners,
                   current_page, shown, clicks, sleeps, data_list, exc, exit_path, result>>
    /\ UNCHANGED <<ingestVars, valueVars, cliVars, extraVars>>

EmitUrl(url) == EmitResponse(on_response_filter(url))

Emit == \E url \in ResponseUrls : EmitUrl(url)

\* the same handler reading its body from a closed browser
HandlerJsonOkAfterClose(t, items) ==
    /\ t \in pending
    /\ pending' = pending \ {t}
    /\ data_list' = data_list \o Extracted(t, items)
    /\ UNCHANGED <<variant, max_pages, pc, playwright, browser, page_created, listeners,
                   current_page, shown, clicks, sleeps, emitted, exc, exit_path, result>>
    /\ UNCHANGED <<ingestVars, valueVars, cliVars, extraVars>>

\* the same handler suspending after its first record, the other records
\* appended once the records of the handlers that ran meanwhile
HandlerJsonOkSplit(t, items) ==
    /\ t \in pending
    /\ browser = "open"
    /\ pending' = pending \ {t}
    /\ data_list' = LET block == Extracted(t, items)
                    IN  IF block = <<>> THEN data_list
                        ELSE <<Head(block)>> \o data_list \o Tail(block)
    /\ UNCHANGED <<variant, max_pages, pc, playwright, browser, page_created, listeners,
                   current_page, shown, clicks, sleeps, emitted, exc, exit_path, result>>
    /\ UNCHANGED <<ingestVars, valueVars, cliVars, extraVars>>

\* response.json() returns the body, whose resultList is `items`: the task
\* runs to its end without suspending again (safe_get never yields),
\* appending its records
HandlerJsonOk(t, items) ==
    /\ t \in pending
    /\ browser = "open"
    /\ pending' = pending \ {t}
    /\ data_list' = data_list \o Extracted(t, items)
    /\ UNCHANGED <<variant, max_pages, pc, playwright, browser, page_created, listeners,
                   current_page, shown, clicks, sleeps, emitted, exc, exit_path, result>>
    /\ UNCHANGED <<ingestVars, valueVars, cliVars, extraVars>>

\* response.json() (or reading data.resultList) raises: caught by the
\* handler's except, nothing is appended
HandlerJsonFail(t) ==
    /\ t \in pending
    /\ pending' = pending \ {t}
    /\ UNCHANGED <<variant, max_pages, pc, playwright, browser, page_created, listeners,
                   current_page, shown, clicks, sleeps, emitted, data_list, exc, exit_path, result>>
    /\ UNCHANGED <<ingestVars, valueVars, cliVars, extraVars>>

JsonOk == \E t \in pending, items \in ItemLists : HandlerJsonOk(t, items)
JsonFail == \E t \in pending : HandlerJsonFail(t)

----------------------------------------------------------------------------
\* Product links are strings, modelled as sequences of characters
L_a == <<"a">>
L_ax == <<"a", "&", "x">>
L_b == <<"b">>
\* two sightings of one link with different payloads, a second link with the
\* same canonical form, and a link with another canonical form
Records == { [link |-> L_a, title |-> "t1"], [link |-> L_a, title |-> "t2"],
             [link |-> L_ax, title |-> "t1"], [link |-> L_b, title |-> "t1"] }
RecordLists == SeqsUpTo(Records, MaxRecords)

\* str.split("&", 1): at most one split, at the first "&"
FirstAmp(link) ==
    IF \E i \in 1..Len(link) : link[i] = "&"
    THEN CHOOSE i \in 1..Len(link) : link[i] = "&" /\ \A j \in 1..(i - 1) : link[j] # "&"
    ELSE 0

Split1(link) ==
    IF FirstAmp(link) = 0 THEN << link >>
    ELSE << SubSeq(link, 1, FirstAmp(link) - 1), SubSeq(link, FirstAmp(link) + 1, Len(link)) >>

\* "&".join(parts)
RECURSIVE JoinAmp(_)
JoinAmp(parts) ==
    IF Len(parts) = 0 THEN <<>>
    ELSE IF Len(parts) = 1 THEN parts[1]
    ELSE parts[1] \o <<"&">> \o JoinAmp(Tail(parts))

get_link_unique_key_whole(link) == link

\* the prefix before the last "&"
get_link_unique_key_last(link) ==
    IF FirstAmp(link) = 0 THEN link
    ELSE SubSeq(link, 1, (CHOOSE i \in 1..Len(link) :
                            link[i] = "&" /\ \A j \in (i + 1)..Len(link) : link[j] # "&") - 1)

\* the prefix before the second "&"
get_link_unique_key_second(link) ==
    IF FirstAmp(link) = 0 THEN link
    ELSE LET rest == SubSeq(link, FirstAmp(link) + 1, Len(link))
         IN  IF FirstAmp(rest) = 0 THEN link
             ELSE SubSeq(link, 1, FirstAmp(link) + FirstAmp(rest) - 1)

get_link_unique_key(link) ==
    LET parts == Split1(link)
    IN  IF Len(parts) >= 2 THEN JoinAmp(SubSeq(parts, 1, 1)) ELSE link

\* hashlib.md5(...).hexdigest(): a digest of the text, taken to be free of
\* collisions; modelled as the base-8 numeral of the character codes
CharCode(c) ==
    CASE c = "a" -> 1 [] c = "b" -> 2 [] c = "x" -> 3 [] c = "y" -> 4 [] c = "&" -> 5
      [] OTHER -> 6

RECURSIVE get_md5(_)
get_md5(text) ==
    IF Len(text) = 0 THEN 0
    ELSE CharCode(text[Len(text)]) + 8 * get_md5(SubSeq(text, 1, Len(text) - 1))

link_hash_of(item) == get_md5(get_link_unique_key(item.link))

\* XianyuProduct.get_or_create(link_hash=h, defaults=...): the row with that
\* link_hash if there is one, else a new row with the next id
NewRow(h, item) ==
    [id |-> Cardinality(store) + 1, link_hash |-> h, title |-> item.title, link |-> item.link]

get_or_create_always(h, item) ==
    [created |-> TRUE, product |-> NewRow(h, item), rows |-> store \cup {NewRow(h, item)}]

update_or_create(h, item) ==
    IF \E r \in store : r.link_hash = h
    THEN LET old == CHOOSE r \in store : r.link_hash = h
             upd == [old EXCEPT !.title = item.title, !.link = item.link]
         IN  [created |-> FALSE, product |-> upd, rows |-> (store \ {old}) \cup {upd}]
    ELSE [created |-> TRUE, product |-> NewRow(h, item), rows |-> store \cup {NewRow(h, item)}]

get_or_create(h, item) ==
    IF \E r \in store : r.link_hash = h
    THEN [created |-> FALSE, product |-> CHOOSE r \in store : r.link_hash = h, rows |-> store]
    ELSE [created |-> TRUE, product |-> NewRow(h, item), rows |-> store \cup {NewRow(h, item)}]

NoPrev == [same |-> FALSE, count |-> 0, fresh |-> FALSE, clean |-> FALSE]

\* save_to_db is idle throughout a scraping session
IngestIdle ==
    /\ store = {} /\ sv_pc = "idle" /\ sv_list = <<>> /\ sv_i = 0
    /\ new_records = 0 /\ new_ids = <<>> /\ sv_failed = {}
    /\ sv_fresh = TRUE /\ sv_size0 = 0
    /\ prev = NoPrev
CoreOff == SessionOff /\ IngestIdle /\ ValuesOff /\ CliOff

\* save_to_db(data_list): new_records = 0; new_ids = []
SaveStart(list) ==
    /\ sv_pc \in {"idle", "returned"}
    /\ sv_pc' = "loop"
    /\ sv_list' = list
    /\ sv_i' = 1
    /\ new_records' = 0
    /\ new_ids' = <<>>
    /\ sv_failed' = {}
    /\ sv_fresh' = (\A k \in 1..Len(list) : \A r \in store : r.link_hash # link_hash_of(list[k]))
    /\ sv_size0' = Cardinality(store)
    /\ prev' = IF sv_pc = "returned" /\ list = sv_list
               THEN [same |-> TRUE, count |-> new_records, fresh |-> sv_fresh,
                     clean |-> (sv_failed = {})]
               ELSE NoPrev
    /\ UNCHANGED store
    /\ UNCHANGED <<sessionVars, valueVars, cliVars, extraVars>>

\* one iteration of `for i, item in enumerate(data_list, 1)`: the body is a
\* try whose handler prints and goes on with the next record
SaveRecordAborts ==
    /\ sv_pc = "loop"
    /\ sv_i <= Len(sv_list)
    /\ \E raises \in BOOLEAN :
          IF raises
          THEN /\ sv_failed' = sv_failed \cup {sv_i}
               /\ sv_pc' = "returned"
               /\ UNCHANGED <<store, new_records, new_ids>>
          ELSE LET got == get_or_create(link_hash_of(sv_list[sv_i]), sv_list[sv_i])
               IN  /\ store' = got.rows
                   /\ new_records' = IF got.created THEN new_records + 1 ELSE new_records
                   /\ new_ids' = IF got.created THEN Append(new_ids, got.product.id) ELSE new_ids
                   /\ UNCHANGED <<sv_failed, sv_pc>>
    /\ sv_i' = sv_i + 1
    /\ UNCHANGED <<sv_list, sv_fresh, sv_size0, prev>>
    /\ UNCHANGED <<sessionVars, valueVars, cliVars, extraVars>>

SaveRecordCountsAll ==
    /\ sv_pc = "loop"
    /\ sv_i <= Len(sv_list)
    /\ \E raises \in BOOLEAN :
          IF raises
          THEN /\ sv_failed' = sv_failed \cup {sv_i}
               /\ UNCHANGED <<store, new_records, new_ids>>
          ELSE LET got == get_or_create(link_hash_of(sv_list[sv_i]), sv_list[sv_i])
               IN  /\ store' = got.rows
                   /\ new_records' = new_records + 1
                   /\ new_ids' = Append(new_ids, got.product.id)
                   /\ UNCHANGED sv_failed
    /\ sv_i' = sv_i + 1
    /\ UNCHANGED <<sv_pc, sv_list, sv_fresh, sv_size0, prev>>
    /\ UNCHANGED <<sessionVars, valueVars, cliVars, extraVars>>

SaveRecord ==
    /\ sv_pc = "loop"
    /\ sv_i <= Len(sv_list)
    /\ \E raises \in BOOLEAN :
          IF raises
          THEN /\ sv_failed' = sv_failed \cup {sv_i}
               /\ UNCHANGED <<store, new_records, new_ids>>
          ELSE LET got == get_or_create(link_hash_of(sv_list[sv_i]), sv_list[sv_i])
               IN  /\ store' = got.rows
                   /\ new_records' = IF got.created THEN new_records + 1 ELSE new_records
                   /\ new_ids' = IF got.created THEN Append(new_ids, got.product.id) ELSE new_ids
                   /\ UNCHANGED sv_failed
    /\ sv_i' = sv_i + 1
    /\ UNCHANGED <<sv_pc, sv_list, sv_fresh, sv_size0, prev>>
    /\ UNCHANGED <<sessionVars, valueVars, cliVars, extraVars>>

\* return new_records, new_ids
SaveReturn ==
    /\ sv_pc = "loop"
    /\ sv_i > Len(sv_list)
    /\ sv_pc' = "returned"
    /\ UNCHANGED <<store, sv_list, sv_i, new_records, new_ids, sv_failed, sv_fresh, sv_size0, prev>>
    /\ UNCHANGED <<sessionVars, valueVars, cliVars, extraVars>>

Save == \E list \in RecordLists : SaveStart(list)

InitIngest == SessionOff /\ IngestIdle /\ ExtraOff /\ ValuesOff /\ CliOff

NextIngest == Save \/ SaveRecord \/ SaveReturn

SpecIngest == InitIngest /\ [][NextIngest]_vars

Init == InitSession /\ IngestIdle /\ ExtraOff /\ ValuesOff /\ CliOff

Next ==
    \/ Launch \/ NewContext \/ NewPage
    \/ Goto \/ Fill \/ ClickSubmit \/ WaitPopup \/ ClickPopup \/ PopupExcept
    \/ ClickNew \/ ClickLatest \/ PageOn
    \/ While \/ Sleep \/ QueryNext \/ ClickNext \/ Incr
    \/ Finally \/ WithExit
    \/ Emit \/ JsonOk \/ JsonFail

Spec == Init /\ [][Next]_vars

----------------------------------------------------------------------------
\* Text.  A str is the sequence of its characters; a Python value handed to
\* the price parser is a str or None.  Characters outside ASCII are written
\* by name: "CNY" ¥, "WAN" 万, "JIA" "GE" "YI4" "CHANG" 价格异常,
\* "ZAN" "WU" 暂无, "DAI" "DING" 待定, "MIAN3" "FEI" 免费, "MIAN4" "YI" 面议,
\* "DANG" "QIAN" "JIA" 当前价.
MaxPriceLen == 3     \* price strings of up to MaxPriceLen characters

Str(s) == [tag |-> "str", s |-> s]
None == [tag |-> "none", s |-> <<>>]

DigitChars == <<"0", "1", "2", "3", "4", "5", "6", "7", "8", "9">>
IsDigit(c) == \E i \in 1..10 : DigitChars[i] = c
DigitVal(c) == (CHOOSE i \in 1..10 : DigitChars[i] = c) - 1

\* str.strip()
RECURSIVE LStrip(_)
LStrip(s) == IF Len(s) > 0 /\ s[1] = " " THEN LStrip(Tail(s)) ELSE s

RECURSIVE RStrip(_)
RStrip(s) == IF Len(s) > 0 /\ s[Len(s)] = " " THEN RStrip(SubSeq(s, 1, Len(s) - 1)) ELSE s

Strip(s) == RStrip(LStrip(s))

\* s.replace(pat, ""), left to right without overlap
RECURSIVE Remove(_, _)
Remove(s, pat) ==
    IF Len(s) = 0 THEN <<>>
    ELSE IF StartsWith(s, pat) THEN Remove(SubSeq(s, Len(pat) + 1, Len(s)), pat)
    ELSE <<s[1]>> \o Remove(Tail(s), pat)

\* s.replace(c, "") for one character c
RemoveChar(s, c) == SelectSeq(s, LAMBDA x : x # c)

\* str(n) of an integer
RECURSIVE NatToStr(_)
NatToStr(n) == IF n < 10 THEN <<DigitChars[n + 1]>> ELSE NatToStr(n \div 10) \o <<DigitChars[(n % 10) + 1]>>

\* the value of a run of digits
RECURSIVE DigitsValue(_)
DigitsValue(ds) ==
    IF Len(ds) = 0 THEN 0
    ELSE DigitVal(ds[Len(ds)]) + 10 * DigitsValue(SubSeq(ds, 1, Len(ds) - 1))

\* float(text): surrounding blanks and one sign are accepted, then digits
\* with at most one "."; anything else raises ValueError.  The value is
\* n / 10^d; a numeral of FloatInfDigits or more integer digits is beyond
\* the largest float and reads as infinity.
FloatInfDigits == 310

IsDecimal(body) ==
    /\ \A i \in 1..Len(body) : IsDigit(body[i]) \/ body[i] = "."
    /\ Cardinality({i \in 1..Len(body) : body[i] = "."}) <= 1
    /\ \E i \in 1..Len(body) : IsDigit(body[i])

DotAt(body) == IF \E i \in 1..Len(body) : body[i] = "."
               THEN CHOOSE i \in 1..Len(body) : body[i] = "."
               ELSE Len(body) + 1

float(text) ==
    LET t == Strip(text)
        signed == Len(t) > 0 /\ t[1] \in {"-", "+"}
        body == IF signed THEN Tail(t) ELSE t
        intpart == SubSeq(body, 1, DotAt(body) - 1)
    IN  IF ~IsDecimal(body) THEN [ok |-> FALSE, inf |-> FALSE, neg |-> FALSE, n |-> 0, d |-> 0]
        ELSE IF Len(intpart) >= FloatInfDigits /\ intpart[1] # "0"
        THEN [ok |-> TRUE, inf |-> TRUE, neg |-> signed /\ t[1] = "-", n |-> 0, d |-> 0]
        ELSE [ok |-> TRUE, inf |-> FALSE, neg |-> signed /\ t[1] = "-",
              n |-> DigitsValue(RemoveChar(body, ".")),
              d |-> IF DotAt(body) > Len(body) THEN 0 ELSE Len(body) - DotAt(body)]

RECURSIVE Pow10(_)
Pow10(d) == IF d = 0 THEN 1 ELSE 10 * Pow10(d - 1)

\* round(num / den) for num >= 0, den > 0: to nearest, ties to even
RoundHalfEven(num, den) ==
    LET q == num \div den
        r == num % den
    IN  IF 2 * r > den \/ (2 * r = den /\ q % 2 = 1) THEN q + 1 ELSE q

----------------------------------------------------------------------------
\* utils/price_parser.py

AnomalyMarkers == { <<"YI4", "CHANG">>, <<"ZAN", "WU">>, <<"DAI", "DING">>, <<"MIAN3", "FEI">>, <<"MIAN4", "YI">> }

\* re.sub(r"[^\d.,万万]", "", price_str)
IsPriceChar(c) == IsDigit(c) \/ c \in {".", ",", "WAN"}

Returns(v) == [raises |-> FALSE, value |-> v]
RaisesOverflowError == [raises |-> TRUE, value |-> 0]

\* n / 10^d * 10^e rounded to an integer
Scaled(f, e) ==
    IF f.d <= e THEN f.n * Pow10(e - f.d) ELSE RoundHalfEven(f.n, Pow10(f.d - e))

\* int(round(price_value * 100)), then max(-1, price_cents), where
\* price_value is float(num_str) times 10^e; float() raising ValueError
\* gives -1, round() of infinity raises OverflowError
to_cents(f, e) ==
    IF ~f.ok THEN Returns(-1)
    ELSE IF f.inf THEN RaisesOverflowError
    ELSE Returns(Scaled(f, e + 2))

parse_price_to_cents(p) ==
    IF p.tag # "str" \/ Strip(p.s) = <<>> THEN Returns(-1)
    ELSE LET stripped == Strip(p.s)
             cleaned_str == SelectSeq(stripped, IsPriceChar)
         IN  IF \E m \in AnomalyMarkers : Contains(stripped, m) THEN Returns(-1)
             ELSE IF cleaned_str = <<>> THEN Returns(-1)
             ELSE IF Contains(cleaned_str, <<"WAN">>)
             THEN LET num_str == RemoveChar(cleaned_str, "WAN")
                  IN  IF num_str = <<>> THEN Returns(-1)
                      ELSE to_cents(float(num_str), 4)
             ELSE LET num_str == RemoveChar(cleaned_str, ",")
                  IN  IF num_str = <<>> THEN Returns(-1)
                      ELSE to_cents(float(num_str), 0)

\* f"¥{yuan_value / 10000:.1f}万" or f"¥{yuan_value:.0f}"
format_cents_to_display_exact(cents) ==
    IF cents < 0 THEN <<"JIA", "GE", "YI4", "CHANG">>
    ELSE <<"CNY">> \o NatToStr(cents \div 100)
             \o (IF cents % 100 = 0 THEN <<>>
                 ELSE <<".">> \o NatToStr((cents % 100) \div 10) \o NatToStr(cents % 10))

format_cents_to_display(cents) ==
    IF cents < 0 THEN <<"JIA", "GE", "YI4", "CHANG">>
    ELSE IF cents >= 1000000
    THEN LET tenths == RoundHalfEven(cents, 100000)
         IN  <<"CNY">> \o NatToStr(tenths \div 10) \o <<".">> \o NatToStr(tenths % 10) \o <<"WAN">>
    ELSE <<"CNY">> \o NatToStr(RoundHalfEven(cents, 100))

\* Price strings: every string over PriceChars of up to MaxPriceLen
\* characters, the documented examples, and None
PriceChars == {"CNY", "0", "1", "5", ".", ",", "WAN", " ", "YI4", "CHANG"}

P_1200 == <<"CNY", "1", "2", "0", "0">>
P_1c200 == <<"CNY", "1", ",", "2", "0", "0">>
P_1p2wan == <<"CNY", "1", ".", "2", "WAN">>
P_1c200wan == <<"CNY", "1", ",", "2", "0", "0", "WAN">>
P_1p25wan == <<"1", ".", "2", "5", "WAN">>
P_12345 == <<"1", "2", "3", "4", "5">>
P_minus == <<"-", "5">>
P_anomaly == <<"JIA", "GE", "YI4", "CHANG">>
P_huge == [i \in 1..FloatInfDigits |-> "9"]
PriceExamples == {P_1200, P_1c200, P_1p2wan, P_1c200wan, P_1p25wan, P_12345, P_minus, P_anomaly, P_huge}

PriceInputs == {Str(s) : s \in SeqsUpTo(PriceChars, MaxPriceLen) \cup PriceExamples} \cup {None}

InitPrice ==
    /\ pr_pc = "input" /\ price_str \in PriceInputs /\ price_cents = 0
    /\ display = <<>> /\ reparsed = 0
    /\ SessionOff /\ IngestIdle /\ ExtraOff /\ LinkOff /\ ItemOff /\ CliOff

\* price_cents = parse_price_to_cents(price_str)
ParsePrice ==
    /\ pr_pc = "input"
    /\ LET r == parse_price_to_cents(price_str)
       IN  IF r.raises THEN pr_pc' = "raised" /\ UNCHANGED price_cents
           ELSE pr_pc' = "parsed" /\ price_cents' = r.value
    /\ UNCHANGED <<price_str, display, reparsed>>
    /\ UNCHANGED <<sessionVars, ingestVars, linkVars, itemVars, cliVars, extraVars>>

\* display = format_cents_to_display(price_cents)
FormatPrice ==
    /\ pr_pc = "parsed"
    /\ display' = format_cents_to_display(price_cents)
    /\ pr_pc' = "formatted"
    /\ UNCHANGED <<price_str, price_cents, reparsed>>
    /\ UNCHANGED <<sessionVars, ingestVars, linkVars, itemVars, cliVars, extraVars>>

\* parse_price_to_cents(display)
ReparsePrice ==
    /\ pr_pc = "formatted"
    /\ LET r == parse_price_to_cents(Str(display))
       IN  IF r.raises THEN pr_pc' = "raised" /\ UNCHANGED reparsed
           ELSE pr_pc' = "reparsed" /\ reparsed' = r.value
    /\ UNCHANGED <<price_str, price_cents, display>>
    /\ UNCHANGED <<sessionVars, ingestVars, linkVars, itemVars, cliVars, extraVars>>

NextPrice == ParsePrice \/ FormatPrice \/ ReparsePrice

SpecPrice == InitPrice /\ [][NextPrice]_vars

----------------------------------------------------------------------------
\* The link canonicalizer and the dedup key on pairs of links
MaxUrlLen == 3       \* links of up to MaxUrlLen characters

UrlChars == {"a", "b", "&"}
Urls == SeqsUpTo(UrlChars, MaxUrlLen)

InitLink ==
    /\ lk_pc = "input" /\ link1 \in Urls /\ link2 \in Urls
    /\ key1 = <<>> /\ key2 = <<>> /\ rekey1 = <<>> /\ rekey2 = <<>>
    /\ hash1 = 0 /\ hash2 = 0
    /\ SessionOff /\ IngestIdle /\ ExtraOff /\ PriceOff /\ ItemOff /\ CliOff

\* unique_part = get_link_unique_key(link)
KeyLinks ==
    /\ lk_pc = "input"
    /\ key1' = get_link_unique_key(link1) /\ key2' = get_link_unique_key(link2)
    /\ lk_pc' = "keyed"
    /\ UNCHANGED <<link1, link2, rekey1, rekey2, hash1, hash2>>
    /\ UNCHANGED <<sessionVars, ingestVars, priceVars, itemVars, cliVars, extraVars>>

\* get_link_unique_key(unique_part)
RekeyLinks ==
    /\ lk_pc = "keyed"
    /\ rekey1' = get_link_unique_key(key1) /\ rekey2' = get_link_unique_key(key2)
    /\ lk_pc' = "rekeyed"
    /\ UNCHANGED <<link1, link2, key1, key2, hash1, hash2>>
    /\ UNCHANGED <<sessionVars, ingestVars, priceVars, itemVars, cliVars, extraVars>>

\* link_hash = get_md5(unique_part)
HashLinks ==
    /\ lk_pc = "rekeyed"
    /\ hash1' = get_md5(key1) /\ hash2' = get_md5(key2)
    /\ lk_pc' = "hashed"
    /\ UNCHANGED <<link1, link2, key1, key2, rekey1, rekey2>>
    /\ UNCHANGED <<sessionVars, ingestVars, priceVars, itemVars, cliVars, extraVars>>

NextLink == KeyLinks \/ RekeyLinks \/ HashLinks

SpecLink == InitLink /\ [][NextLink]_vars

----------------------------------------------------------------------------
\* on_response, one item of resultList.  A JSON value is a str, None, an int
\* (kept by its digits), a list or a dict; the members of a list or dict are
\* its kids, a dict's with their keys.
MaxDefects == 1      \* defects put into one item

JStr(s) == [tag |-> "str", s |-> s, kids |-> <<>>]
JNull == [tag |-> "none", s |-> <<>>, kids |-> <<>>]
JInt(digits) == [tag |-> "int", s |-> digits, kids |-> <<>>]
KV(key, v) == [k |-> key, v |-> v]
JList(vals) == [tag |-> "list", s |-> <<>>, kids |-> [i \in 1..Len(vals) |-> KV("", vals[i])]]
JDict(pairs) == [tag |-> "dict", s |-> <<>>, kids |-> pairs]

HasKey(d, key) == \E i \in 1..Len(d.kids) : d.kids[i].k = key
Member(d, key) == d.kids[CHOOSE i \in 1..Len(d.kids) : d.kids[i].k = key].v

\* data[key] for a str key: KeyError on a dict without the key, TypeError on
\* anything that is not a dict
Subscript(data, key) ==
    IF data.tag # "dict" THEN [exc |-> "TypeError", value |-> JNull]
    ELSE IF ~HasKey(data, key) THEN [exc |-> "KeyError", value |-> JNull]
    ELSE [exc |-> "none", value |-> Member(data, key)]

\* for key in keys: try: data = data[key]
\*                  except (KeyError, TypeError, IndexError): return default
RECURSIVE safe_get(_, _, _)
safe_get(data, keys, default) ==
    IF keys = <<>> THEN data
    ELSE LET r == Subscript(data, Head(keys))
         IN  IF r.exc \in {"KeyError", "TypeError", "IndexError"} THEN default
             ELSE safe_get(r.value, Tail(keys), default)

\* d.get(key, default) of a dict
dict_get(d, key, default) == IF HasKey(d, key) THEN Member(d, key) ELSE default

\* str(v) (of containers only the empty ones)
str(v) ==
    CASE v.tag \in {"str", "int"} -> v.s
      [] v.tag = "none" -> <<"N", "o", "n", "e">>
      [] v.tag = "list" -> <<"[", "]">>
      [] v.tag = "dict" -> <<"{", "}">>

\* bool(v)
Truthy(v) ==
    CASE v.tag = "str" -> v.s # <<>>
      [] v.tag = "int" -> \E i \in 1..Len(v.s) : v.s[i] # "0"
      [] v.tag = "none" -> FALSE
      [] OTHER -> v.kids # <<>>

\* s.replace(old, new)
RECURSIVE Replace(_, _, _)
Replace(s, old, new) ==
    IF Len(s) = 0 THEN <<>>
    ELSE IF StartsWith(s, old) THEN new \o Replace(SubSeq(s, Len(old) + 1, Len(s)), old, new)
    ELSE <<s[1]>> \o Replace(Tail(s), old, new)

\* s.isdigit()
isdigit(s) == Len(s) > 0 /\ \A i \in 1..Len(s) : IsDigit(s[i])

PriceLabel == <<"DANG", "QIAN", "JIA">>
PriceAnomaly == <<"JIA", "GE", "YI4", "CHANG">>
DefaultTitle == <<"WEI4", "ZHI", "BIAO", "TI">>
DefaultArea == <<"DI", "QU", "WEI4", "ZHI">>
DefaultSeller == <<"NI", "MING", "MAI", "JIA1">>
DefaultTime == <<"WEI4", "ZHI", "SHI", "JIAN">>
Fleamarket == <<"f", "l", "e", "a", "m", "a", "r", "k", "e", "t", ":", "/", "/">>
Goofish == <<"h", "t", "t", "p", "s", ":", "/", "/", "w", "w", "w", ".",
             "g", "o", "o", "f", "i", "s", "h", ".", "c", "o", "m", "/">>

\* "".join([str(p.get("text", "")) for p in price_parts if isinstance(p, dict)])
RECURSIVE join_texts(_)
join_texts(kids) ==
    IF kids = <<>> THEN <<>>
    ELSE (IF Head(kids).v.tag = "dict" THEN str(dict_get(Head(kids).v, "text", JStr(<<>>))) ELSE <<>>)
         \o join_texts(Tail(kids))

\* f"¥{float(...) * 10000:.0f}"
expand_wan(f) ==
    <<"CNY">> \o (IF f.inf THEN (IF f.neg THEN <<"-">> ELSE <<>>) \o <<"i", "n", "f">>
                  ELSE (IF f.neg THEN <<"-">> ELSE <<>>) \o NatToStr(Scaled(f, 4)))

\* the price text of an item; float() raises ValueError on a malformed number
price_text_keeps_label(price_parts) ==
    IF price_parts.tag # "list" THEN [exc |-> "none", s |-> PriceAnomaly]
    ELSE LET price == Strip(join_texts(price_parts.kids))
         IN  IF ~Contains(price, <<"WAN">>) THEN [exc |-> "none", s |-> price]
             ELSE LET f == float(RemoveChar(RemoveChar(price, "CNY"), "WAN"))
                  IN  IF ~f.ok THEN [exc |-> "ValueError", s |-> <<>>]
                      ELSE [exc |-> "none", s |-> expand_wan(f)]

price_text(price_parts) ==
    IF price_parts.tag # "list" THEN [exc |-> "none", s |-> PriceAnomaly]
    ELSE LET price == Strip(Remove(join_texts(price_parts.kids), PriceLabel))
         IN  IF ~Contains(price, <<"WAN">>) THEN [exc |-> "none", s |-> price]
             ELSE LET f == float(RemoveChar(RemoveChar(price, "CNY"), "WAN"))
                  IN  IF ~f.ok THEN [exc |-> "ValueError", s |-> <<>>]
                      ELSE [exc |-> "none", s |-> expand_wan(f)]

\* datetime.fromtimestamp(int(ms) / 1000).strftime("%Y-%m-%d %H:%M"),
\* kept as the timestamp it renders
strftime(ms) == <<"@">> \o ms

ItemRaised(e) == [exc |-> e, rec |-> <<>>]

\* the body of `for item in items`: the record appended for the item, or the
\* exception that leaves the loop
on_response_item(it) ==
    LET main_data == safe_get(it, <<"data", "item", "main", "exContent">>, JDict(<<>>))
        click_params == safe_get(it, <<"data", "item", "main", "clickParam", "args">>, JDict(<<>>))
        title == safe_get(main_data, <<"title">>, JStr(DefaultTitle))
        price_parts == safe_get(main_data, <<"price">>, JList(<<>>))
        price == price_text(price_parts)
        cents == parse_price_to_cents(Str(price.s))
        area == safe_get(main_data, <<"area">>, JStr(DefaultArea))
        seller == safe_get(main_data, <<"userNickName">>, JStr(DefaultSeller))
        raw_link == safe_get(it, <<"data", "item", "main", "targetUrl">>, JStr(<<>>))
        image_url == safe_get(main_data, <<"picUrl">>, JStr(<<>>))
        publishTime == dict_get(click_params, "publishTime", JNull)
    IN  IF price.exc # "none" THEN ItemRaised(price.exc)
        ELSE IF cents.raises THEN ItemRaised("OverflowError")
        ELSE IF raw_link.tag # "str" THEN ItemRaised("AttributeError")
        ELSE IF Truthy(image_url) /\ image_url.tag # "str" THEN ItemRaised("AttributeError")
        ELSE IF click_params.tag # "dict" THEN ItemRaised("AttributeError")
        ELSE [exc |-> "none",
              rec |-> [title |-> title,
                       price |-> price.s,
                       price_cents |-> cents.value,
                       area |-> area,
                       seller |-> seller,
                       link |-> Replace(raw_link.s, Fleamarket, Goofish),
                       image_url |-> IF Truthy(image_url) /\ ~StartsWith(image_url.s, <<"h", "t", "t", "p">>)
                                     THEN JStr(<<"h", "t", "t", "p", "s", ":">> \o image_url.s)
                                     ELSE image_url,
                       publish_time |-> IF publishTime.tag = "str" /\ isdigit(publishTime.s)
                                        THEN strftime(publishTime.s)
                                        ELSE DefaultTime]]

\* Items: a well-formed item with one of several price fields and click
\* parameters, and the well-formed item with up to MaxDefects defects, each
\* at one node of the paths the extraction reads
T_title == <<"t">>
T_area == <<"SHANG", "HAI">>
T_seller == <<"s">>
T_pic == <<"/", "/", "i">>
T_url == Fleamarket \o <<"i", "&", "x">>
T_ms == <<"1", "7", "0", "0">>

Frag(text) == JDict(<<KV("text", text)>>)
F_wan == JList(<<Frag(JStr(PriceLabel)), Frag(JStr(P_1p2wan))>>)
F_plain == JList(<<Frag(JStr(<<"CNY">>)), Frag(JStr(<<"1", "2", "0", "0">>))>>)
F_malformed == JList(<<Frag(JStr(<<"1", ".", "2", ".", "3", "WAN">>))>>)
F_mixed == JList(<<JStr(<<"x">>), JDict(<<>>), Frag(JNull)>>)
F_int == JList(<<Frag(JInt(<<"1", "2", "0", "0">>))>>)
PriceFields == {F_wan, F_plain, F_malformed, F_mixed, F_int}

A_none == JDict(<<>>)
A_ms == JDict(<<KV("publishTime", JStr(T_ms))>>)
A_word == JDict(<<KV("publishTime", JStr(<<"x">>))>>)
A_int == JDict(<<KV("publishTime", JInt(T_ms))>>)
ArgsFields == {A_none, A_ms, A_word, A_int}

GoodItem(price, click_args) ==
    JDict(<<KV("data", JDict(<<KV("item", JDict(<<KV("main", JDict(<<
        KV("exContent", JDict(<<KV("title", JStr(T_title)), KV("price", price),
                                KV("area", JStr(T_area)), KV("userNickName", JStr(T_seller)),
                                KV("picUrl", JStr(T_pic))>>)),
        KV("clickParam", JDict(<<KV("args", click_args)>>)),
        KV("targetUrl", JStr(T_url))>>))>>))>>))>>)

P_main == <<"data", "item", "main">>
P_ex == P_main \o <<"exContent">>
P_args == P_main \o <<"clickParam", "args">>
DefectPaths == { <<"data">>, <<"data", "item">>, P_main, P_ex,
                 P_ex \o <<"title">>, P_ex \o <<"price">>, P_ex \o <<"area">>,
                 P_ex \o <<"userNickName">>, P_ex \o <<"picUrl">>,
                 P_main \o <<"clickParam">>, P_args, P_args \o <<"publishTime">>,
                 P_main \o <<"targetUrl">> }
DefectKinds == {"missing", "none", "list", "str", "int"}
Defects == [path : DefectPaths, kind : DefectKinds]

WrongTyped(kind) ==
    CASE kind = "none" -> JNull
      [] kind = "list" -> JList(<<JStr(<<"x">>)>>)
      [] kind = "str" -> JStr(<<"x">>)
      [] kind = "int" -> JInt(<<"5">>)

RECURSIVE WithDefect(_, _, _)
WithDefect(v, path, kind) ==
    IF v.tag # "dict" \/ ~HasKey(v, Head(path)) THEN v
    ELSE LET i == CHOOSE j \in 1..Len(v.kids) : v.kids[j].k = Head(path)
         IN  IF Len(path) > 1
             THEN JDict([v.kids EXCEPT ![i] = KV(Head(path), WithDefect(v.kids[i].v, Tail(path), kind))])
             ELSE IF kind = "missing"
             THEN JDict(SubSeq(v.kids, 1, i - 1) \o SubSeq(v.kids, i + 1, Len(v.kids)))
             ELSE JDict([v.kids EXCEPT ![i] = KV(Head(path), WrongTyped(kind))])

RECURSIVE WithDefects(_, _)
WithDefects(v, ds) ==
    IF ds = <<>> THEN v
    ELSE WithDefects(WithDefect(v, Head(ds).path, Head(ds).kind), Tail(ds))

FullItem == GoodItem(F_wan, A_ms)

Items == {GoodItem(p, a) : p \in PriceFields, a \in ArgsFields}
            \cup {WithDefects(FullItem, ds) : ds \in SeqsUpTo(Defects, MaxDefects)}

InitItem ==
    /\ it_pc = "input" /\ raw_item \in Items /\ record = <<>>
    /\ SessionOff /\ IngestIdle /\ ExtraOff /\ PriceOff /\ LinkOff /\ CliOff

\* data_list.append({...})
ItemAppended ==
    /\ it_pc = "input"
    /\ on_response_item(raw_item).exc = "none"
    /\ record' = on_response_item(raw_item).rec
    /\ it_pc' = "appended"
    /\ UNCHANGED raw_item
    /\ UNCHANGED <<sessionVars, ingestVars, priceVars, linkVars, cliVars, extraVars>>

\* except Exception as e: the item and the rest of the response are dropped
ItemRaises ==
    /\ it_pc = "input"
    /\ on_response_item(raw_item).exc # "none"
    /\ record' = <<on_response_item(raw_item).exc>>
    /\ it_pc' = "raised"
    /\ UNCHANGED raw_item
    /\ UNCHANGED <<sessionVars, ingestVars, priceVars, linkVars, cliVars, extraVars>>

NextItem == ItemAppended \/ ItemRaises

SpecItem == InitItem /\ [][NextItem]_vars

----------------------------------------------------------------------------
\* cli_search: validation, database, session, persistence, output
MaxOver == 1         \* page counts and row limits reach MaxOver past each threshold

MaxPagesLimit == 50          \* "max_pages_limit"
TableMaxRowsLimit == 100     \* "table_max_rows_limit"
CLIErrorExitCode == 1        \* CLIError(message, exit_code=1)
UnknownErrorExitCode == 1    \* handle_cli_error: any other exception
supported_formats == {"table", "json", "csv"}

PagesArgs == ((0 - MaxOver)..(1 + MaxOver)) \cup ((MaxPagesLimit - MaxOver)..(MaxPagesLimit + MaxOver))
LimitArgs == ((1 - MaxOver)..1) \cup (TableMaxRowsLimit..(TableMaxRowsLimit + MaxOver))
FormatArgs == supported_formats \cup {"xml"}
ArgSets == [pages : PagesArgs, limit : LimitArgs, format : FormatArgs,
            no_db : BOOLEAN, output : BOOLEAN]

\* validate_pages(pages): ValueError below 1, the limit above the limit
validate_pages_uncapped(p) ==
    IF p < 1 THEN [raises |-> TRUE, value |-> 0]
    ELSE [raises |-> FALSE, value |-> p]

validate_pages(p) ==
    IF p < 1 THEN [raises |-> TRUE, value |-> 0]
    ELSE IF p > MaxPagesLimit THEN [raises |-> FALSE, value |-> MaxPagesLimit]
    ELSE [raises |-> FALSE, value |-> p]

validate_table_limit(l) ==
    IF l < 1 THEN [raises |-> TRUE, value |-> 0]
    ELSE IF l > TableMaxRowsLimit THEN [raises |-> FALSE, value |-> TableMaxRowsLimit]
    ELSE [raises |-> FALSE, value |-> l]

validate_output_format(f) == [raises |-> f \notin supported_formats, value |-> f]

InitCli ==
    /\ cli_pc = "validate_pages" /\ args \in ArgSets /\ pages = 0
    /\ db_initialized = FALSE /\ db_inits = 0 /\ scrape_calls = <<>>
    /\ scrape_outcome = "none"
    /\ persisted = FALSE /\ exit_code = 0
    /\ SessionOff /\ IngestIdle /\ ExtraOff /\ ValuesOff

\* except (CLIError, ValueError) / except Exception: return handle_cli_error(...)
Fails(code) == cli_pc' = "finally" /\ exit_code' = code

\* pages = config.validate_pages(args.pages)
ValidatePages ==
    /\ cli_pc = "validate_pages"
    /\ LET r == validate_pages(args.pages)
       IN  IF r.raises THEN Fails(UnknownErrorExitCode) /\ UNCHANGED pages
           ELSE cli_pc' = "validate_limit" /\ pages' = r.value /\ UNCHANGED exit_code
    /\ UNCHANGED <<args, db_initialized, db_inits, scrape_calls, persisted>>
    /\ UNCHANGED scrape_outcome
    /\ UNCHANGED <<sessionVars, ingestVars, valueVars, extraVars>>

\* limit = config.validate_table_limit(args.limit)
ValidateTableLimit ==
    /\ cli_pc = "validate_limit"
    /\ IF validate_table_limit(args.limit).raises THEN Fails(UnknownErrorExitCode)
       ELSE cli_pc' = "validate_format" /\ UNCHANGED exit_code
    /\ UNCHANGED <<args, pages, db_initialized, db_inits, scrape_calls, persisted>>
    /\ UNCHANGED scrape_outcome
    /\ UNCHANGED <<sessionVars, ingestVars, valueVars, extraVars>>

\* format_name = config.validate_output_format(args.format)
ValidateOutputFormat ==
    /\ cli_pc = "validate_format"
    /\ IF validate_output_format(args.format).raises THEN Fails(UnknownErrorExitCode)
       ELSE cli_pc' = "init_database" /\ UNCHANGED exit_code
    /\ UNCHANGED <<args, pages, db_initialized, db_inits, scrape_calls, persisted>>
    /\ UNCHANGED scrape_outcome
    /\ UNCHANGED <<sessionVars, ingestVars, valueVars, extraVars>>

\* if not args.no_db: if not await init_database(): raise DatabaseError
InitDatabase ==
    /\ cli_pc = "init_database"
    /\ IF args.no_db
       THEN cli_pc' = "scrape" /\ UNCHANGED <<db_initialized, db_inits, exit_code>>
       ELSE /\ db_inits' = db_inits + 1
            /\ \E ok \in BOOLEAN :
                  IF ok THEN db_initialized' = TRUE /\ cli_pc' = "scrape" /\ UNCHANGED exit_code
                  ELSE Fails(CLIErrorExitCode) /\ UNCHANGED db_initialized
    /\ UNCHANGED <<args, pages, scrape_calls, persisted>>
    /\ UNCHANGED scrape_outcome
    /\ UNCHANGED <<sessionVars, ingestVars, valueVars, extraVars>>

\* the same call handing the records gathered so far to save_to_db when the
\* session raised
ScrapeKeepsPartial ==
    /\ cli_pc = "scrape"
    /\ scrape_calls' = Append(scrape_calls, pages)
    /\ \E outcome \in {"records", "empty", "raises"} :
          /\ scrape_outcome' = outcome
          /\ CASE outcome = "records" -> cli_pc' = "save_to_db" /\ UNCHANGED exit_code
               [] outcome = "empty" -> Fails(0)
               [] outcome = "raises" -> cli_pc' = "save_to_db" /\ UNCHANGED exit_code
    /\ UNCHANGED <<args, pages, db_initialized, db_inits, persisted>>
    /\ UNCHANGED <<sessionVars, ingestVars, valueVars, extraVars>>

\* data_list = await scrape_xianyu(args.keyword, pages, ...); no record: return 0
Scrape ==
    /\ cli_pc = "scrape"
    /\ scrape_calls' = Append(scrape_calls, pages)
    /\ \E outcome \in {"records", "empty", "raises"} :
          /\ scrape_outcome' = outcome
          /\ CASE outcome = "records" -> cli_pc' = "save_to_db" /\ UNCHANGED exit_code
               [] outcome = "empty" -> Fails(0)
               [] outcome = "raises" -> Fails(CLIErrorExitCode)
    /\ UNCHANGED <<args, pages, db_initialized, db_inits, persisted>>
    /\ UNCHANGED <<sessionVars, ingestVars, valueVars, extraVars>>

\* if not args.no_db: new_count, new_ids = await save_to_db(data_list, ...)
SaveToDb ==
    /\ cli_pc = "save_to_db"
    /\ persisted' = ~args.no_db
    /\ cli_pc' = "output"
    /\ UNCHANGED <<args, pages, db_initialized, db_inits, scrape_calls, exit_code>>
    /\ UNCHANGED scrape_outcome
    /\ UNCHANGED <<sessionVars, ingestVars, valueVars, extraVars>>

\* table / json / csv output; csv without --output raises OutputError
Output ==
    /\ cli_pc = "output"
    /\ IF args.format = "csv" /\ ~args.output THEN Fails(CLIErrorExitCode) ELSE Fails(0)
    /\ UNCHANGED <<args, pages, db_initialized, db_inits, scrape_calls, persisted>>
    /\ UNCHANGED scrape_outcome
    /\ UNCHANGED <<sessionVars, ingestVars, valueVars, extraVars>>

\* finally: if not args.no_db: await close_database()
FinallyClose ==
    /\ cli_pc = "finally"
    /\ db_initialized' = IF args.no_db THEN db_initialized ELSE FALSE
    /\ cli_pc' = "done"
    /\ UNCHANGED <<args, pages, db_inits, scrape_calls, persisted, exit_code>>
    /\ UNCHANGED scrape_outcome
    /\ UNCHANGED <<sessionVars, ingestVars, valueVars, extraVars>>

NextCli ==
    \/ ValidatePages \/ ValidateTableLimit \/ ValidateOutputFormat
    \/ InitDatabase \/ Scrape \/ SaveToDb \/ Output \/ FinallyClose

SpecCli == InitCli /\ [][NextCli]_vars

----------------------------------------------------------------------------
\* DatabaseManager (src/database.py): init_database, close_database and
\* reset_database, one action per statement that can raise.  Every method
\* body is one try statement whose `except Exception` returns False.
MaxDbCalls == 3      \* calls of the manager's methods in one run

DbOps == {"init", "close", "reset"}

\* the running method returns ret
DbReturn(op, ret) ==
    /\ db_pc' = "idle"
    /\ db_hist' = Append(db_hist, [op |-> op, ret |-> ret])

DbCanCall == db_pc = "idle" /\ Len(db_hist) < MaxDbCalls

\* init_database(): `if self.is_initialized: return True`
InitDatabaseEnter ==
    /\ DbCanCall
    /\ IF is_initialized
         THEN DbReturn("init", TRUE)
         ELSE db_pc' = "init_makedirs" /\ UNCHANGED db_hist
    /\ UNCHANGED <<is_initialized, conn, tortoise_inits, conn_closes>>
    /\ UNCHANGED <<coreVars, notDbVars>>

\* os.makedirs(db_dir) when the directory is missing
InitDatabaseMakedirs ==
    /\ db_pc = "init_makedirs"
    /\ \E ok \in BOOLEAN :
         IF ok THEN db_pc' = "init_tortoise" /\ UNCHANGED db_hist
               ELSE DbReturn("init", FALSE)
    /\ UNCHANGED <<is_initialized, conn, tortoise_inits, conn_closes>>
    /\ UNCHANGED <<coreVars, notDbVars>>

\* await Tortoise.init(config=self.config): opens the connection
TortoiseInit(op, next) ==
    /\ \E ok \in BOOLEAN :
         IF ok THEN /\ conn' = "open"
                    /\ tortoise_inits' = tortoise_inits + 1
                    /\ db_pc' = next
                    /\ UNCHANGED db_hist
               ELSE /\ DbReturn(op, FALSE)
                    /\ UNCHANGED <<conn, tortoise_inits>>
    /\ UNCHANGED <<is_initialized, conn_closes>>
    /\ UNCHANGED <<coreVars, notDbVars>>

\* await Tortoise.generate_schemas(...); self.is_initialized = True;
\* return True
GenerateSchemas(op) ==
    /\ \E ok \in BOOLEAN :
         IF ok THEN is_initialized' = TRUE /\ DbReturn(op, TRUE)
               ELSE UNCHANGED is_initialized /\ DbReturn(op, FALSE)
    /\ UNCHANGED <<conn, tortoise_inits, conn_closes>>
    /\ UNCHANGED <<coreVars, notDbVars>>

InitDatabaseTortoise == db_pc = "init_tortoise" /\ TortoiseInit("init", "init_schemas")
InitDatabaseSchemas == db_pc = "init_schemas" /\ GenerateSchemas("init")

\* close_database(): `if not self.is_initialized: return True`
CloseDatabaseEnter ==
    /\ DbCanCall
    /\ IF ~is_initialized
         THEN DbReturn("close", TRUE)
         ELSE db_pc' = "close_connections" /\ UNCHANGED db_hist
    /\ UNCHANGED <<is_initialized, conn, tortoise_inits, conn_closes>>
    /\ UNCHANGED <<coreVars, notDbVars>>

\* the same step that leaves the flag set
CloseConnectionsKeepsFlag(ok) ==
    IF ok THEN /\ conn' = "closed"
               /\ conn_closes' = conn_closes + 1
               /\ UNCHANGED is_initialized
          ELSE UNCHANGED <<conn, conn_closes, is_initialized>>

\* await Tortoise.close_connections(); self.is_initialized = False
CloseConnections(ok) ==
    IF ok THEN /\ conn' = "closed"
               /\ conn_closes' = conn_closes + 1
               /\ is_initialized' = FALSE
          ELSE UNCHANGED <<conn, conn_closes, is_initialized>>

CloseDatabaseConnections ==
    /\ db_pc = "close_connections"
    /\ \E ok \in BOOLEAN : CloseConnections(ok) /\ DbReturn("close", ok)
    /\ UNCHANGED tortoise_inits
    /\ UNCHANGED <<coreVars, notDbVars>>

\* reset_database(): `if self.is_initialized: await self.close_database()`
ResetDatabaseEnter ==
    /\ DbCanCall
    /\ db_pc' = IF is_initialized THEN "reset_close" ELSE "reset_tortoise"
    /\ UNCHANGED <<is_initialized, conn, db_hist, tortoise_inits, conn_closes>>
    /\ UNCHANGED <<coreVars, notDbVars>>

\* the nested close_database(): its return value is dropped
ResetDatabaseClose ==
    /\ db_pc = "reset_close"
    /\ \E ok \in BOOLEAN : CloseConnections(ok)
    /\ db_pc' = "reset_tortoise"
    /\ UNCHANGED <<db_hist, tortoise_inits>>
    /\ UNCHANGED <<coreVars, notDbVars>>

ResetDatabaseTortoise == db_pc = "reset_tortoise" /\ TortoiseInit("reset", "reset_schemas")
ResetDatabaseSchemas == db_pc = "reset_schemas" /\ GenerateSchemas("reset")

InitDb ==
    /\ db_pc = "idle" /\ is_initialized = FALSE /\ conn = "closed" /\ db_hist = <<>>
    /\ tortoise_inits = 0 /\ conn_closes = 0
    /\ CoreOff /\ CreateOff /\ LegacyOff /\ ConcOff

NextDb ==
    \/ InitDatabaseEnter \/ InitDatabaseMakedirs \/ InitDatabaseTortoise
    \/ InitDatabaseSchemas
    \/ CloseDatabaseEnter \/ CloseDatabaseConnections
    \/ ResetDatabaseEnter \/ ResetDatabaseClose \/ ResetDatabaseTortoise
    \/ ResetDatabaseSchemas

SpecDb == InitDb /\ [][NextDb]_vars

----------------------------------------------------------------------------
\* save_to_db, the creation of one row (src/cli_spider.py 80-96, models.py).
\* A record and a row are functions from field names to values; a datetime
\* is written <<"datetime", text>> and None is <<>>.
UnknownTime == "unknown"     \* the record's marker of an unknown publish time
NoneValue == <<>>
strptime(text) == <<"datetime", text>>

\* the records on_response appends, by the English names of their keys
CreateItems ==
    [title : {"t1", "t2"}, price : {"CNY1.5", "CNY2"}, price_cents : {-1, 0, 150},
     area : {"SHANG HAI", "WEI4 ZHI"}, seller : {"s1", "s2"}, link : {L_a, L_b},
     image_url : {"https://i1", "https://i2"},
     publish_time : {UnknownTime, "2024-01-01 10:00"}]

\* the fields XianyuProduct declares
XianyuProductFields ==
    {"id", "title", "price", "area", "seller", "link", "link_hash", "image_url",
     "publish_time"}

\* the defaults= argument save_to_db builds from a record
CreateDefaults(item) ==
    [title |-> item.title,
     price |-> item.price,
     price_cents |-> item.price_cents,
     area |-> item.area,
     seller |-> item.seller,
     link |-> item.link,
     image_url |-> item.image_url,
     publish_time |-> IF item.publish_time # UnknownTime
                      THEN strptime(item.publish_time) ELSE NoneValue]

\* XianyuProduct(**kwargs): the constructor assigns the keyword arguments
\* that name a field of the model and passes over the others
XianyuProduct(kwargs) ==
    [f \in (DOMAIN kwargs) \cap XianyuProductFields |-> kwargs[f]]

\* XianyuProduct.get_or_create(link_hash=h, defaults=d) on a table without
\* the key: create(**d, link_hash=h), the table assigning the id
create(h, d, id) ==
    XianyuProduct([f \in (DOMAIN d) \cup {"link_hash", "id"} |->
                      IF f = "link_hash" THEN h ELSE IF f = "id" THEN id ELSE d[f]])

InitCreate ==
    /\ cr_pc = "input" /\ cr_item \in CreateItems /\ cr_row = <<>>
    /\ CoreOff /\ DbOff /\ LegacyOff /\ ConcOff

GetOrCreateCreates ==
    /\ cr_pc = "input"
    /\ cr_row' = create(get_md5(get_link_unique_key(cr_item.link)),
                        CreateDefaults(cr_item), 1)
    /\ cr_pc' = "created"
    /\ UNCHANGED cr_item
    /\ UNCHANGED <<coreVars, notCreateVars>>

NextCreate == GetOrCreateCreates

SpecCreate == InitCreate /\ [][NextCreate]_vars

----------------------------------------------------------------------------
\* The pagination loop of the synchronous script (src/test.py 160-201)
MaxLegacyPages == 4      \* max_pages ranges over 1..MaxLegacyPages

InitLegacy ==
    /\ lg_pc = "while" /\ lg_max_pages \in 1..MaxLegacyPages /\ lg_page = 1
    /\ lg_iters = 0 /\ lg_exit = "none" /\ lg_has_data \in BOOLEAN
    /\ lg_reported = 0
    /\ CoreOff /\ DbOff /\ CreateOff /\ ConcOff

LegacyBreak(how) == lg_pc' = "save" /\ lg_exit' = how /\ UNCHANGED lg_page

\* the handler without its increment
LegacyExceptBreaks == lg_pc' = "save" /\ lg_exit' = "failed" /\ UNCHANGED lg_page

\* except: print(...); current_page += 1; break
LegacyExcept == lg_pc' = "save" /\ lg_exit' = "failed" /\ lg_page' = lg_page + 1

\* while current_page <= max_pages
LegacyWhile ==
    /\ lg_pc = "while"
    /\ IF lg_page <= lg_max_pages
         THEN lg_pc' = "wait_pager" /\ lg_iters' = lg_iters + 1 /\ UNCHANGED lg_exit
         ELSE lg_pc' = "save" /\ lg_exit' = "complete" /\ UNCHANGED lg_iters
    /\ UNCHANGED <<lg_max_pages, lg_page, lg_has_data, lg_reported>>
    /\ UNCHANGED <<coreVars, notLegacyVars>>

\* page.wait_for_selector(pagination container) in its own try; except: break
LegacyWaitPager ==
    /\ lg_pc = "wait_pager"
    /\ \E ok \in BOOLEAN :
         IF ok THEN lg_pc' = "query_next" /\ UNCHANGED <<lg_exit, lg_page>>
               ELSE LegacyBreak("no_pager")
    /\ UNCHANGED <<lg_max_pages, lg_iters, lg_has_data, lg_reported>>
    /\ UNCHANGED <<coreVars, notLegacyVars>>

\* next_btn = page.query_selector(...); if next_btn is None or "disabled" in
\* its class: break.  A raise inside the try goes to the handler.
LegacyQueryNext ==
    /\ lg_pc = "query_next"
    /\ \E outcome \in {"found", "absent", "disabled", "raise"} :
         CASE outcome = "found" -> lg_pc' = "click_next" /\ UNCHANGED <<lg_exit, lg_page>>
           [] outcome \in {"absent", "disabled"} -> LegacyBreak("absent")
           [] outcome = "raise" -> LegacyExcept
    /\ UNCHANGED <<lg_max_pages, lg_iters, lg_has_data, lg_reported>>
    /\ UNCHANGED <<coreVars, notLegacyVars>>

\* page.click(next, timeout=1000), then current_page += 1 after the try
LegacyClickNext ==
    /\ lg_pc = "click_next"
    /\ \E ok \in BOOLEAN :
         IF ok THEN lg_pc' = "while" /\ lg_page' = lg_page + 1 /\ UNCHANGED lg_exit
               ELSE LegacyExcept
    /\ UNCHANGED <<lg_max_pages, lg_iters, lg_has_data, lg_reported>>
    /\ UNCHANGED <<coreVars, notLegacyVars>>

\* if data_list: the file name carries current_page - 1 as the page count
LegacySave ==
    /\ lg_pc = "save"
    /\ lg_reported' = IF lg_has_data THEN lg_page - 1 ELSE lg_reported
    /\ lg_pc' = "done"
    /\ UNCHANGED <<lg_max_pages, lg_page, lg_iters, lg_exit, lg_has_data>>
    /\ UNCHANGED <<coreVars, notLegacyVars>>

NextLegacy ==
    \/ LegacyWhile \/ LegacyWaitPager \/ LegacyQueryNext \/ LegacyClickNext
    \/ LegacySave

SpecLegacy == InitLegacy /\ [][NextLegacy]_vars

----------------------------------------------------------------------------
\* Two requests of the API (src/spider.py search_items) served by one event
\* loop: each runs scrape_xianyu and then save_to_db on the shared table.
\* A request is suspended at every await, so the statements of
\* get_or_create of the two runs interleave: the lookup, the insert (which
\* the unique constraint on link_hash can reject), and the lookup after a
\* rejected insert.
MaxConcRecords == 2      \* records in the list of one request

Requests == {1, 2}
ConcRecords == { [link |-> L_a, title |-> "t1"], [link |-> L_ax, title |-> "t2"],
                 [link |-> L_b, title |-> "t1"] }
ConcLists == SeqsUpTo(ConcRecords, MaxConcRecords)

InitApi ==
    /\ cc_lists \in [Requests -> ConcLists]
    /\ cc_pc = [r \in Requests |-> "scrape"]
    /\ cc_i = [r \in Requests |-> 0]
    /\ cc_new = [r \in Requests |-> 0]
    /\ cc_ids = [r \in Requests |-> <<>>]
    /\ cc_store = {}
    /\ CoreOff /\ DbOff /\ CreateOff /\ LegacyOff

ConcItem(r) == cc_lists[r][cc_i[r]]
ConcHash(r) == get_md5(get_link_unique_key(ConcItem(r).link))

\* the next iteration of `for item in data_list`, or the return
ConcAdvance(r) ==
    IF cc_i[r] < Len(cc_lists[r])
    THEN cc_i' = [cc_i EXCEPT ![r] = @ + 1] /\ cc_pc' = [cc_pc EXCEPT ![r] = "get"]
    ELSE cc_pc' = [cc_pc EXCEPT ![r] = "done"] /\ UNCHANGED cc_i

\* data_list = await scrape_xianyu(keyword, max_pages); if data_list:
\* save_to_db(data_list).  An exception becomes HTTPException(500).
ApiScrape(r) ==
    /\ cc_pc[r] = "scrape"
    /\ \E ok \in BOOLEAN :
         IF ok THEN ConcAdvance(r)
               ELSE cc_pc' = [cc_pc EXCEPT ![r] = "error"] /\ UNCHANGED cc_i
    /\ UNCHANGED <<cc_lists, cc_new, cc_ids, cc_store>>
    /\ UNCHANGED <<coreVars, notConcVars>>

\* get_or_create, the lookup by link_hash
ConcGet(r) ==
    /\ cc_pc[r] = "get"
    /\ IF \E row \in cc_store : row.link_hash = ConcHash(r)
         THEN ConcAdvance(r)
         ELSE cc_pc' = [cc_pc EXCEPT ![r] = "create"] /\ UNCHANGED cc_i
    /\ UNCHANGED <<cc_lists, cc_new, cc_ids, cc_store>>
    /\ UNCHANGED <<coreVars, notConcVars>>

\* the insert on a table without the unique constraint
ConcInsertUnchecked(r) ==
    LET row == [id |-> Cardinality(cc_store) + 1, link_hash |-> ConcHash(r),
                title |-> ConcItem(r).title, link |-> ConcItem(r).link]
    IN  /\ cc_store' = cc_store \cup {row}
        /\ cc_new' = [cc_new EXCEPT ![r] = @ + 1]
        /\ cc_ids' = [cc_ids EXCEPT ![r] = Append(@, row.id)]
        /\ ConcAdvance(r)

\* get_or_create, the insert: link_hash is unique, so a row with the key
\* makes it fail and get_or_create looks the row up again; a created row is
\* counted before the next await
ConcInsert(r) ==
    IF \E row \in cc_store : row.link_hash = ConcHash(r)
    THEN /\ cc_pc' = [cc_pc EXCEPT ![r] = "reget"]
         /\ UNCHANGED <<cc_i, cc_store, cc_new, cc_ids>>
    ELSE LET row == [id |-> Cardinality(cc_store) + 1, link_hash |-> ConcHash(r),
                     title |-> ConcItem(r).title, link |-> ConcItem(r).link]
         IN  /\ cc_store' = cc_store \cup {row}
             /\ cc_new' = [cc_new EXCEPT ![r] = @ + 1]
             /\ cc_ids' = [cc_ids EXCEPT ![r] = Append(@, row.id)]
             /\ ConcAdvance(r)

ConcCreate(r) ==
    /\ cc_pc[r] = "create"
    /\ ConcInsert(r)
    /\ UNCHANGED cc_lists
    /\ UNCHANGED <<coreVars, notConcVars>>

\* get_or_create, the lookup after the rejected insert: created is False
ConcReget(r) ==
    /\ cc_pc[r] = "reget"
    /\ ConcAdvance(r)
    /\ UNCHANGED <<cc_lists, cc_new, cc_ids, cc_store>>
    /\ UNCHANGED <<coreVars, notConcVars>>

NextApi ==
    \E r \in Requests : ApiScrape(r) \/ ConcGet(r) \/ ConcCreate(r) \/ ConcReget(r)

SpecApi == InitApi /\ [][NextApi]_vars

----------------------------------------------------------------------------
\* Vocabulary of the properties

LoopPcs == {"while", "sleep", "query_next", "click_next", "incr"}

\* the records of every item that processes without error
AllOkRecords(t, items) ==
    LET F[k \in 0..Len(items)] ==
            IF k = 0 THEN <<>>
            ELSE IF items[k] = "ok" THEN Append(F[k - 1], Record(t, k))
            ELSE F[k - 1]
    IN  F[Len(items)]

\* the part of a link before its first "&"
RECURSIVE PrefixBeforeAmp(_)
PrefixBeforeAmp(link) ==
    IF Len(link) = 0 THEN <<>>
    ELSE IF Head(link) = "&" THEN <<>>
    ELSE <<Head(link)>> \o PrefixBeforeAmp(Tail(link))

DistinctCanonical(list) == Cardinality({PrefixBeforeAmp(list[k].link) : k \in 1..Len(list)})

CallDone == sv_pc = "returned"
\* the call that just returned repeats the list of the call before it, which
\* began on a store holding none of the list's keys; neither call met a
\* persistence exception
RepeatedCleanCall ==
    /\ CallDone /\ prev.same /\ prev.fresh /\ prev.clean /\ sv_failed = {}

----------------------------------------------------------------------------
\* C1: once the browser is launched, every exit of the session (return,
\* break, exception in any step after launch) leaves it closed: the try
\* statement is left only through `finally: await browser.close()`, and the
\* session ends with no browser open.
C1_BrowserClosedOnExit ==
    /\ pc \in {"returned", "raised"} => browser # "open"
    /\ (pc = "with_exit" /\ page_created) => browser = "closed"

C1_Witness == pc = "raised" /\ browser = "closed" /\ current_page >= 1

\* C2: when the next-page control is absent or disabled at page k, the loop
\* ends at page k (k waits, k - 1 clicks) without raising, the browser is
\* closed and the session returns the records accumulated so far.
C2_EarlyBreak ==
    exit_path = "break" =>
        /\ pc \in {"finally", "with_exit", "returned"}
        /\ ~exc
        /\ current_page <= max_pages
        /\ variant = "cli" => current_page < max_pages
        /\ sleeps = current_page /\ clicks = current_page - 1
        /\ pc = "returned" => (browser = "closed" /\ result = data_list)

C2_Witness ==
    /\ pc = "returned" /\ exit_path = "break" /\ variant = "cli"
    /\ max_pages = 2 /\ current_page = 1 /\ Len(result) > 0

\* C3: an exception while processing one item of a response skips only that
\* item: every other item of the same response that processes without error
\* is appended.
C3_ItemIsolation ==
    [][\A t \in pending, items \in ItemLists :
          HandlerJsonOk(t, items) => data_list' = data_list \o AllOkRecords(t, items)]_vars

\* C4 (as stated): save_to_db twice with the same list of length N on a store
\* holding none of its keys returns N, then 0.
C4_Original ==
    RepeatedCleanCall => (prev.count = Len(sv_list) /\ new_records = 0)

\* C4 (amended): save_to_db twice with the same list on a store holding none
\* of its keys returns the number of distinct dedup keys of the list (N when
\* they are pairwise distinct), then 0, when no persistence exception occurs.
C4_TwiceDistinctThenZero ==
    RepeatedCleanCall => (prev.count = DistinctCanonical(sv_list) /\ new_records = 0)

C4_Witness == RepeatedCleanCall /\ Len(sv_list) = 2 /\ prev.count = 1

\* C5: the store never holds two rows with the same link_hash, that is, with
\* the same canonicalized link.
C5_UniqueDedupKey ==
    \A r1, r2 \in store :
        (r1.link_hash = r2.link_hash \/ PrefixBeforeAmp(r1.link) = PrefixBeforeAmp(r2.link))
            => r1 = r2

C5_Witness ==
    /\ CallDone /\ sv_failed = {} /\ Cardinality(store) = 1
    /\ Len(sv_list) = 2 /\ sv_list[1].link # sv_list[2].link

\* C6: on an empty store and without persistence failure, new_count is the
\* number of distinct canonicalized links of the input.
C6_CountsDistinctLinks ==
    (CallDone /\ sv_size0 = 0 /\ sv_failed = {}) => new_records = DistinctCanonical(sv_list)

C6_Witness ==
    /\ CallDone /\ sv_size0 = 0 /\ sv_failed = {} /\ Len(sv_list) = 2
    /\ sv_list[1].link = L_a /\ sv_list[2].link = L_ax /\ new_records = 1

\* C7: first write wins: no row is ever removed or changed, and a record
\* whose dedup key is already stored changes neither the store nor new_count
\* nor new_ids.
C7_FirstWriteWins ==
    [][/\ \A r \in store : r \in store'
       /\ (/\ sv_pc = "loop" /\ sv_i <= Len(sv_list)
           /\ \E r \in store : r.link_hash = link_hash_of(sv_list[sv_i]))
          => (store' = store /\ new_records' = new_records /\ new_ids' = new_ids)]_vars

C7_Witness ==
    /\ CallDone /\ sv_failed = {}
    /\ \E k \in 1..Len(sv_list) : \E r \in store :
          /\ r.link_hash = link_hash_of(sv_list[k])
          /\ r.title # sv_list[k].title

\* C8: a persistence exception on one record does not end the batch: the call
\* returns only after every record was visited in order, and a failed record
\* is counted neither in new_count nor in new_ids.
C8_FailureDoesNotAbort ==
    CallDone =>
        /\ sv_i = Len(sv_list) + 1
        /\ new_records = Len(new_ids)
        /\ new_records = Cardinality(store) - sv_size0
        /\ new_records + Cardinality(sv_failed) <= Len(sv_list)
        /\ \A k \in 1..Len(new_ids) : \E r \in store : r.id = new_ids[k]

C8_Witness ==
    /\ CallDone /\ Len(sv_list) = 2 /\ sv_failed = {1} /\ new_records = 1

\* C9: the observer is registered once before the first loop iteration and
\* is never removed, so each matching response emitted from then until the
\* browser closes starts exactly one on_response task.
C9_Registered ==
    /\ pc \in LoopPcs => listeners = 1
    /\ \A t1, t2 \in pending : t1.rid = t2.rid => t1 = t2

C9_ObserverLifetime ==
    /\ []C9_Registered
    /\ [][/\ listeners >= 1 => listeners' = listeners
          /\ (EmitResponse(TRUE) /\ current_page >= 1) =>
                \E t \in pending' : t.rid = emitted' /\ t \notin pending
                                    /\ pending' = pending \cup {t}]_vars

C9_Witness ==
    /\ pc = "sleep" /\ current_page = 2
    /\ \E t \in pending : t.page = 2
    /\ \E k \in 1..Len(data_list) : data_list[k].page = 1

\* C10: the next-page click is decided by the controller's own state, not by
\* pending handlers, so records of a later page can come to precede records
\* of an earlier page in data_list (the witness).
C10_ClickNotGated == pc = "click_next" => ENABLED ClickNext

C10_Witness ==
    \E i, j \in 1..Len(data_list) : i < j /\ data_list[i].page > data_list[j].page

\* C11: an exception raised by a step of the session is neither swallowed nor
\* retried: from the step that raised, the session only runs its cleanup and
\* hands the exception to the caller, with the browser closed by then and
\* nothing returned; no step of the session is ever run a second time for
\* the same page.
StepRank ==
    CASE pc = "launch" -> 1 [] pc = "new_context" -> 2 [] pc = "new_page" -> 3
      [] pc = "goto" -> 4 [] pc = "fill" -> 5 [] pc = "click_submit" -> 6
      [] pc = "wait_popup" -> 7 [] pc = "click_popup" -> 8 [] pc = "popup_except" -> 9
      [] pc = "click_new" -> 10 [] pc = "click_latest" -> 11 [] pc = "page_on" -> 12
      [] pc = "while" -> 20 + 10 * current_page
      [] pc = "sleep" -> 21 + 10 * current_page
      [] pc = "query_next" -> 22 + 10 * current_page
      [] pc = "click_next" -> 23 + 10 * current_page
      [] pc = "incr" -> 24 + 10 * current_page
      [] pc = "finally" -> 1000 [] pc = "with_exit" -> 1001
      [] OTHER -> 1002

C11_Propagates ==
    exit_path = "exception" =>
        /\ exc
        /\ pc \in {"finally", "with_exit", "raised"}
        /\ pc = "raised" => (browser # "open" /\ result = NoResult)
        /\ (pc = "raised" /\ page_created) => browser = "closed"

C11_ExceptionReachesCaller ==
    /\ []C11_Propagates
    /\ [][pc' # pc => StepRank' > StepRank]_vars
    /\ [][exc => exc']_vars

C11_Witness ==
    /\ pc = "raised" /\ exit_path = "exception" /\ clicks = 1 /\ current_page = 2
    /\ browser = "closed"

\* C13: a response is handed to the extractor exactly when its URL contains
\* the search endpoint: for any other URL no task reads the body and
\* data_list stays as it is; data_list grows only when a task of a matching
\* response finishes.
IsSearchUrl(url) == url = U_search

C13_OnlyEndpointProcessed ==
    /\ [][\A url \in ResponseUrls : EmitUrl(url) =>
             /\ data_list' = data_list
             /\ IF IsSearchUrl(url)
                THEN listeners >= 1 => \E t \in pending' : t \notin pending /\ t.rid = emitted'
                ELSE pending' = pending]_vars
    /\ [][data_list' # data_list => \E t \in pending : t \notin pending']_vars

C13_Witness ==
    /\ emitted = 2 /\ listeners = 1 /\ Cardinality(pending) = 1 /\ data_list = <<>>
    /\ \A t \in pending : t.rid = 1

\* The supported grammar of price strings: an optional currency symbol, a
\* numeral (digits, optionally grouped in thousands by commas, optionally a
\* decimal point and decimals) and an optional ten-thousand marker
Numeral(s) ==
    LET core0 == IF Len(s) > 0 /\ s[1] = "CNY" THEN Tail(s) ELSE s
    IN  IF Len(core0) > 0 /\ core0[Len(core0)] = "WAN"
        THEN SubSeq(core0, 1, Len(core0) - 1) ELSE core0

HasWan(s) == Len(s) > 0 /\ s[Len(s)] = "WAN"

IntPart(num) == SubSeq(num, 1, DotAt(num) - 1)
Decimals(num) == SubSeq(num, DotAt(num) + 1, Len(num))

ThousandsGrouped(ip) ==
    LET commas == {i \in 1..Len(ip) : ip[i] = ","}
    IN  /\ Len(ip) > 0 /\ IsDigit(ip[1])
        /\ \A i \in 1..Len(ip) : IsDigit(ip[i]) \/ ip[i] = ","
        /\ commas # {} =>
              /\ \A i \in 1..Len(ip) : (i \in commas) <=> (i < Len(ip) /\ (Len(ip) - i) % 4 = 3)
              /\ Len(ip) % 4 # 0

InGrammar(s) ==
    LET num == Numeral(s)
    IN  /\ ThousandsGrouped(IntPart(num))
        /\ DotAt(num) <= Len(num) =>
              /\ Len(Decimals(num)) > 0
              /\ \A i \in 1..Len(Decimals(num)) : IsDigit(Decimals(num)[i])

\* yuan value x 100 (x 10,000 with the marker), rounded to an integer
YuanTimes100(s) ==
    LET num == Numeral(s)
        f == [n |-> DigitsValue(SelectSeq(num, IsDigit)), d |-> Len(Decimals(num))]
    IN  Scaled(f, IF HasWan(s) THEN 6 ELSE 2)

NoParseableNumber(s) == \A i \in 1..Len(s) : ~IsDigit(s[i])

Parsed == pr_pc \in {"parsed", "formatted", "reparsed"}

\* C14: parse_price_to_cents maps every string of the supported grammar to
\* its yuan value x 100, the ten-thousand marker multiplying by 10,000, and
\* returns -1 for the empty string, blanks, a string with an anomaly marker
\* and a string without a number.
C14_ParsesGrammar ==
    (Parsed /\ price_str.tag = "str") =>
        /\ InGrammar(price_str.s) => price_cents = YuanTimes100(price_str.s)
        /\ ( \/ Strip(price_str.s) = <<>>
             \/ \E m \in AnomalyMarkers : Contains(price_str.s, m)
             \/ NoParseableNumber(price_str.s) ) => price_cents = -1

\* C15: for every input parse_price_to_cents returns an integer that is
\* >= 0 or exactly -1.
C15_SentinelOrNonNegative ==
    /\ pr_pc # "raised"
    /\ Parsed => price_cents >= -1

DisplayExact(cents) ==
    \/ cents = -1
    \/ cents >= 0 /\ cents < 1000000 /\ cents % 100 = 0
    \/ cents >= 1000000 /\ cents % 100000 = 0

HasAmp(link) == \E i \in 1..Len(link) : link[i] = "&"

SameThroughFirstAmp(l1, l2) ==
    \E i \in 1..Len(l1) :
        /\ i <= Len(l2)
        /\ l1[i] = "&" /\ l2[i] = "&"
        /\ \A j \in 1..(i - 1) : l1[j] = l2[j] /\ l1[j] # "&"

IsPrefix(p, q) == Len(p) <= Len(q) /\ \A i \in 1..Len(p) : p[i] = q[i]

IntermediatePaths == { <<"data">>, <<"data", "item">>, P_main, P_ex, P_ex \o <<"price">>,
                       P_main \o <<"clickParam">>, P_args }

ClaimedDefect(d) == d.kind = "missing" \/ d.path \in IntermediatePaths

C12_DefaultsOnDefect ==
    \A d \in Defects :
        (it_pc # "input" /\ ClaimedDefect(d) /\ raw_item = WithDefect(FullItem, d.path, d.kind)) =>
            /\ it_pc = "appended"
            /\ IsPrefix(d.path, P_ex \o <<"title">>) => record.title = JStr(DefaultTitle)
            /\ IsPrefix(d.path, P_ex \o <<"area">>) => record.area = JStr(DefaultArea)
            /\ IsPrefix(d.path, P_ex \o <<"userNickName">>) => record.seller = JStr(DefaultSeller)
            /\ IsPrefix(d.path, P_main \o <<"targetUrl">>) => record.link = <<>>
            /\ IsPrefix(d.path, P_ex \o <<"picUrl">>) => record.image_url = JStr(<<>>)
            /\ IsPrefix(d.path, P_args \o <<"publishTime">>) => record.publish_time = DefaultTime

\* C19: the text fragments of the price field are concatenated, the label is
\* stripped, the ten-thousand form is expanded to yuan and converted to
\* minor units: the fragments "当前价", "¥1.2万" with area "上海" and no
\* publish-time parameter give one record with price_cents 1200000, area
\* "上海" and the publish time unset.
ScenarioItem == GoodItem(F_wan, A_none)

C19_PriceFragments ==
    /\ (it_pc # "input" /\ raw_item = ScenarioItem) =>
          /\ it_pc = "appended"
          /\ record.price = <<"CNY", "1", "2", "0", "0", "0">>
          /\ record.price_cents = 1200000
          /\ record.area = JStr(T_area)
          /\ record.publish_time = DefaultTime
    /\ \A a \in ArgsFields :
          /\ (it_pc # "input" /\ raw_item = GoodItem(F_wan, a)) =>
                it_pc = "appended" /\ record.price_cents = YuanTimes100(P_1p2wan)
          /\ (it_pc # "input" /\ raw_item = GoodItem(F_plain, a)) =>
                it_pc = "appended" /\ record.price_cents = YuanTimes100(P_1200)

C19_Witness ==
    /\ it_pc = "appended" /\ raw_item = ScenarioItem
    /\ record.price_cents = 1200000 /\ record.publish_time = DefaultTime

\* C20: a page count below 1 or an unsupported output format makes
\* cli_search return a non-zero exit code without the database initialised,
\* the session started or a record persisted; a page count above the limit
\* is capped, so every session runs with 1 <= max_pages <= limit.
ConfigurationError == args.pages < 1 \/ args.format \notin {"table", "json", "csv"}

C20_RejectsBeforeScraping ==
    cli_pc # "off" =>
        /\ ConfigurationError =>
              /\ db_inits = 0 /\ ~db_initialized /\ scrape_calls = <<>> /\ ~persisted
              /\ cli_pc \in {"validate_pages", "validate_limit", "validate_format", "finally", "done"}
              /\ cli_pc = "done" => exit_code # 0
        /\ \A i \in 1..Len(scrape_calls) :
              /\ 1 <= scrape_calls[i] /\ scrape_calls[i] <= 50
              /\ scrape_calls[i] = IF args.pages > 50 THEN 50 ELSE args.pages
        /\ Len(scrape_calls) <= 1

C20_Witness ==
    /\ cli_pc = "done" /\ args.pages = 1 /\ args.format = "xml" /\ ~args.no_db
    /\ exit_code = 1 /\ db_inits = 0 /\ scrape_calls = <<>>

C20_WitnessCapped ==
    /\ cli_pc = "done" /\ args.pages = 51 /\ scrape_calls = <<50>> /\ persisted

----------------------------------------------------------------------------
\* the last n calls that returned
LastCalls(n) == SubSeq(db_hist, Len(db_hist) - n + 1, Len(db_hist))
DbFresh == is_initialized = FALSE /\ conn = "closed"

\* C21: init_database() on an initialised manager returns True without
\* calling Tortoise.init again; close_database() on an uninitialised manager
\* returns True without touching the connection; and after an init and a
\* close that both returned True the manager is back in the uninitialised
\* state it was constructed in, from which init_database() runs the
\* initialisation again.
C21_InitCloseIdempotent ==
    /\ [][(InitDatabaseEnter /\ is_initialized) =>
            /\ db_pc' = "idle"
            /\ db_hist' = Append(db_hist, [op |-> "init", ret |-> TRUE])
            /\ tortoise_inits' = tortoise_inits /\ conn' = conn
            /\ is_initialized']_vars
    /\ [][(CloseDatabaseEnter /\ ~is_initialized) =>
            /\ db_pc' = "idle"
            /\ db_hist' = Append(db_hist, [op |-> "close", ret |-> TRUE])
            /\ conn_closes' = conn_closes /\ conn' = conn
            /\ ~is_initialized']_vars
    /\ []((/\ db_pc = "idle" /\ Len(db_hist) >= 2
           /\ LastCalls(2) = <<[op |-> "init", ret |-> TRUE],
                               [op |-> "close", ret |-> TRUE]>>)
            => DbFresh)
    /\ [][(InitDatabaseEnter /\ DbFresh) => db_pc' = "init_makedirs"]_vars

C21_Witness ==
    /\ db_pc = "idle"
    /\ db_hist = <<[op |-> "init", ret |-> TRUE], [op |-> "close", ret |-> TRUE],
                   [op |-> "init", ret |-> TRUE]>>
    /\ tortoise_inits = 2 /\ conn_closes = 1 /\ is_initialized

\* C28: after any sequence of init_database / close_database /
\* reset_database calls, each of which may fail at any internal step,
\* is_initialized is True exactly when the connection is open; no failure
\* leaves a connection open while is_initialized is False.
C28_FlagTracksConnection ==
    db_pc = "idle" => (is_initialized <=> conn = "open")

\* the steps that may follow step p: the next statement of the session, or
\* the cleanup when p raised
SessionSuccessors(p) ==
    CASE p = "launch" -> {"new_context", "with_exit"}
      [] p = "new_context" -> {"new_page", "with_exit"}
      [] p = "new_page" -> {"goto", "with_exit"}
      [] p = "goto" -> {"fill", "finally"}
      [] p = "fill" -> {"click_submit", "finally"}
      [] p = "click_submit" -> {"wait_popup", "finally"}
      [] p = "wait_popup" -> {"click_popup", "popup_except"}
      [] p = "click_popup" -> {"click_new", "popup_except"}
      [] p = "popup_except" -> {"click_new"}
      [] p = "click_new" -> {"click_latest", "finally"}
      [] p = "click_latest" -> {"page_on", "finally"}
      [] p = "page_on" -> {"while"}
      [] p = "while" -> {"sleep", "finally"}
      [] p = "sleep" -> {"query_next", "incr"}
      [] p = "query_next" -> {"click_next", "finally"}
      [] p = "click_next" -> {"incr", "finally"}
      [] p = "incr" -> {"while"}
      [] p = "finally" -> {"with_exit"}
      [] p = "with_exit" -> {"returned", "raised"}
      [] OTHER -> {}

PopupPcs == {"wait_popup", "click_popup", "popup_except"}

\* C22: a session runs its steps in one fixed order: navigate to the home
\* page, fill and submit the search, attempt to dismiss the interstitial,
\* select newest-first sorting, register the response observer, run the page
\* loop, close the browser; a step is followed by the next one (or by the
\* cleanup when it raised), never by another.  A dismissal that fails or
\* times out raises nothing and is followed by the sorting step.
C22_FixedStepOrder ==
    /\ [][pc' # pc => pc' \in SessionSuccessors(pc)]_vars
    /\ [][(pc \in PopupPcs) => (exc' = exc /\ exit_path' = exit_path)]_vars
    /\ [](pc = "popup_except" => (~exc /\ browser = "open" /\ ENABLED PopupExcept))
    /\ [](pc \in LoopPcs => (listeners = 1 /\ shown >= 1 /\ browser = "open"))

C22_Witness ==
    /\ pc = "popup_except" /\ ~exc /\ exit_path = "none" /\ shown = 1
    /\ listeners = 0 /\ ENABLED PopupExcept

\* C23: for every max_pages >= 1 the page loop makes at most max_pages
\* inter-page waits and at most max_pages - 1 next-page clicks: the
\* next-page control is neither looked up nor clicked on the last configured
\* page, and the page index never exceeds max_pages + 1.
C23_LoopBounds ==
    /\ sleeps <= max_pages
    /\ clicks <= max_pages - 1
    /\ current_page <= max_pages + 1
    /\ pc \in {"query_next", "click_next"} => current_page < max_pages

\* C26: the records extracted from one response are appended to the
\* accumulated list as one contiguous block, in the order of the items of
\* the response: between two records of one response there is no record of
\* another, and every change of the list is one handler appending its whole
\* block at the end while the other handlers are still waiting for their
\* bodies.
C26_ContiguousBlocks ==
    /\ [](\A i, j \in 1..Len(data_list) :
            (i < j /\ data_list[i].rid = data_list[j].rid) =>
                /\ data_list[i].idx < data_list[j].idx
                /\ \A k \in i..j : data_list[k].rid = data_list[i].rid)
    /\ [][data_list' # data_list =>
            \E t \in pending :
                /\ pending' = pending \ {t}
                /\ \E block \in {Extracted(t, items) : items \in ItemLists} :
                       data_list' = data_list \o block]_vars

C26_Witness ==
    /\ Len(data_list) = 2 * MaxItems
    /\ data_list[1].rid # data_list[Len(data_list)].rid
    /\ pending = {}

\* C27: a response of the search endpoint outside the observer's lifetime
\* contributes no record: one emitted before page.on has run starts no
\* handler, and a handler still waiting for its body when the browser is
\* closed appends nothing, so the returned list is the list at the close and
\* can lack the records of a page that was shown.
C27_OutsideLifetimeNoRecord ==
    /\ [](listeners = 0 => (pending = {} /\ data_list = <<>>))
    /\ [][(emitted' # emitted /\ listeners = 0) =>
            (pending' = pending /\ data_list' = data_list)]_vars
    /\ [][browser # "open" => data_list' = data_list]_vars
    /\ [](pc = "returned" => result = data_list)

\* two responses were emitted while pages were shown, the session returned
\* without a record, and a handler is still waiting for its body
C27_Witness ==
    /\ pc = "returned" /\ exit_path = "complete" /\ shown >= 1
    /\ emitted = 2 /\ Cardinality(pending) = 1 /\ result = <<>>

\* C24: when save_to_db creates a StoredProduct, every field of the record
\* is persisted in it: title, price text, price in minor units, area,
\* seller, full product URL, image URL and publish time (unset when the
\* record's publish time is unknown).
C24_EveryFieldPersisted ==
    cr_pc = "created" =>
        \A f \in DOMAIN CreateDefaults(cr_item) :
            f \in DOMAIN cr_row /\ cr_row[f] = CreateDefaults(cr_item)[f]

\* C25: in the pagination loop of test.py the branch taken when the
\* next-page interaction fails increments the page counter before it leaves
\* the loop, the branch taken when the control is absent or disabled does
\* not: having processed the same pages, the first reports them all
\* (current_page - 1 = pages processed) and the second reports one fewer,
\* so the reported page count is off by one on a termination path.
C25_ReportedPagesOffByOne ==
    /\ [](lg_exit = "failed" => lg_page = lg_iters + 1)
    /\ [](lg_exit \in {"absent", "no_pager"} => lg_page = lg_iters)
    /\ []((lg_pc = "done" /\ lg_has_data) =>
            /\ lg_exit \in {"failed", "complete"} => lg_reported = lg_iters
            /\ lg_exit \in {"absent", "no_pager"} => lg_reported = lg_iters - 1)
    /\ [][(lg_exit' = "failed" /\ lg_exit # "failed") => lg_page' = lg_page + 1]_vars
    /\ [][(lg_exit' = "absent" /\ lg_exit # "absent") => lg_page' = lg_page]_vars

\* two pages were processed, the control of the second is absent or
\* disabled, and the file name says one page
C25_Witness ==
    /\ lg_pc = "done" /\ lg_has_data /\ lg_exit = "absent"
    /\ lg_iters = 2 /\ lg_reported = 1

\* C29: when an exception of the session propagates out of scrape_xianyu,
\* the records accumulated so far are neither returned nor ingested:
\* cli_search calls save_to_db only after scrape_xianyu returned a list of
\* records, a session that raised leads straight to the error exit with
\* nothing persisted, and the command returns the error code.
C29_FailedSessionNotIngested ==
    /\ [](scrape_outcome = "raises" =>
            /\ ~persisted
            /\ cli_pc \in {"finally", "done"}
            /\ exit_code = CLIErrorExitCode)
    /\ []((persisted \/ cli_pc \in {"save_to_db", "output"}) => scrape_outcome = "records")
    /\ [][SaveToDb => (scrape_outcome = "records" /\ scrape_outcome' = "records")]_vars

C29_Witness ==
    /\ cli_pc = "done" /\ scrape_outcome = "raises" /\ ~args.no_db /\ db_inits = 1
    /\ ~persisted /\ ~db_initialized /\ exit_code = CLIErrorExitCode

ConcKeys(list) == {get_md5(get_link_unique_key(list[k].link)) : k \in 1..Len(list)}
ConcIdSet(r) == {cc_ids[r][k] : k \in 1..Len(cc_ids[r])}
BothSaved == \A r \in Requests : cc_pc[r] = "done"

\* C30: two requests of the API run save_to_db interleaved, statement of
\* get_or_create by statement, on lists that can share a dedup key.  In every
\* interleaving the table holds one row per key, every row was counted by
\* exactly one run and once, the two new_count add up to the rows added,
\* and when both runs have returned the table holds exactly the keys of
\* their lists.
C30_OneRowPerKey ==
    cc_pc # <<>> =>
        /\ \A a, b \in cc_store : a.link_hash = b.link_hash => a = b
        /\ cc_new[1] + cc_new[2] = Cardinality(cc_store)
        /\ \A r \in Requests :
              Len(cc_ids[r]) = cc_new[r] /\ Cardinality(ConcIdSet(r)) = cc_new[r]
        /\ ConcIdSet(1) \cap ConcIdSet(2) = {}
        /\ ConcIdSet(1) \cup ConcIdSet(2) = {row.id : row \in cc_store}
        /\ BothSaved =>
              {row.link_hash : row \in cc_store} =
                  ConcKeys(cc_lists[1]) \cup ConcKeys(cc_lists[2])

\* both runs looked the shared key up before either inserted it; the insert
\* of run 1 was rejected, run 2 counted the row
C30_Witness ==
    /\ cc_pc # <<>> /\ cc_pc[1] = "reget" /\ cc_pc[2] = "done"
    /\ cc_lists[1] = <<[link |-> L_a, title |-> "t1"]>>
    /\ cc_lists[2] = <<[link |-> L_ax, title |-> "t2"]>>
    /\ cc_new[1] = 0 /\ cc_new[2] = 1 /\ Cardinality(cc_store) = 1

\* search_items saves nothing for a request whose session raised
C29_ApiFailedRequestSavesNothing ==
    cc_pc # <<>> =>
        \A r \in Requests :
            cc_pc[r] = "error" => (cc_i[r] = 0 /\ cc_new[r] = 0 /\ cc_ids[r] = <<>>)

====
